---------------------------- MODULE Spec2Model ----------------------------
(***************************************************************************)
(* A model of the helper core of COT: the process invocation layer         *)
(* (check_call / check_output), the Helper entity, the scoped download,    *)
(* and the data-validation utilities.                                      *)
(*                                                                         *)
(* Strings that the code inspects character by character are sequences of  *)
(* one-character strings; captured process output is a sequence of byte    *)
(* values.  Python's None is the string "None" where the other values are  *)
(* strings, and a tagged record elsewhere.                                 *)
(***************************************************************************)
EXTENDS Integers, Sequences, FiniteSets, TLC

VARIABLES
    frames,     \* invocation layer: the Python call stack of check_call/check_output
    started,    \* invocation layer: argument vectors handed to subprocess, in order
    seen,       \* invocation layer: what each started subprocess did
    pending,    \* invocation layer: value or exception travelling up the stack
    req,        \* invocation layer: the top-level invocation being served
    res,        \* invocation layer: what the top-level invocation gave its caller
    env,        \* helper world: where each program is on the search PATH ("None": nowhere)
    h,          \* helper world: the Helper object's _path and _installed
    pms,        \* helper world: the PackageManager objects of package_managers
    ui,         \* helper world: Helper.UI ("None" or a user interface)
    providers,  \* helper world: the helper's _provider_packages, in iteration order
    obs,        \* helper world: what the last operation did and gave its caller
    tgz,        \* scoped download: where download_and_expand_tgz is, and what it holds
    tmpdirs,    \* scoped download: the temporary directories that exist
    files,      \* scoped download: the files in them, as <<directory, name>>
    val,        \* validation utilities: the call being made and its result
    reg,        \* registry: a HelperDict, its factory's calls and the last lookup
    fs          \* mkdir / cp: the call being made, what each step did, its result

invokeVars == <<frames, started, seen, pending, req, res>>

helperVars == <<env, h, pms, ui, providers, obs>>

tgzVars == <<tgz, tmpdirs, files>>

vars == <<frames, started, seen, pending, req, res,
          env, h, pms, ui, providers, obs, tgz, tmpdirs, files, val, reg, fs>>

(***************************************************************************)
(* Bounds of the model.                                                    *)
(***************************************************************************)
\* version is accessed while _version_args holds at most this many entries.
MaxVersionArgs == 3
\* The number of lookups a behaviour makes in the registry.
MaxLookups == 6
\* Threads using the registry at the same time.
MaxThreads == 2
\* The longest string device_address and no_whitespace are given.
MaxAddrChars == 4
\* The longest list check_for_conflict is given.
MaxCandidates == 3
\* The longest string validate_int is given.
MaxIntChars == 3
\* validate_int is given the decimal form of every integer -MaxInt..MaxInt.
MaxInt == 12
\* The longest list natural_sort is given.
MaxSortLen == 3
\* The number of downloads a behaviour makes.
MaxDownloads == 3
\* Exit statuses a subprocess may end with are 0..MaxExit.
MaxExit == 2
\* The deepest stack of check_call/check_output frames the model follows.
MaxDepth == 4

(***************************************************************************)
(* Process invocation layer (src/COT/helpers/helper.py, 428-528)           *)
(***************************************************************************)

\* Argument vectors callers pass (element 0 is the program).
Argvs == { <<"prog">>, <<"prog", "-v">> }

\* Byte strings a subprocess may print: empty, ASCII only ("A"), with a byte
\* that is neither ASCII nor the start of any UTF-8 sequence, and a version
\* number ("1.2").
Outputs == { <<>>, <<65>>, <<65, 255, 66>>, <<49, 46, 50>> }

\* errno values of an OSError raised when starting the program.
Errnos == {"ENOENT", "EPERM", "EACCES", "EIO"}

\* Everything one subprocess start can do: run and exit with a status having
\* printed some bytes, or fail to start with an OSError.
Outcomes ==
    [k : {"exit"}, code : 0..MaxExit, errno : {"0"}, out : Outputs]
    \cup [k : {"oserror"}, code : {0}, errno : Errnos, out : {<<>>}]

\* bytes.decode('ascii', 'ignore'): the bytes that are not ASCII are dropped.
decode_ascii_ignore(bs) == SelectSeq(bs, LAMBDA b : b < 128)

\* bytes.decode(): strict; fails on a byte that is not valid in the codec.
decode_strict_ok(bs) == \A i \in 1..Len(bs) : bs[i] < 128

decode_strict(bs) == bs

\* Results: a returned value or a raised exception, one record shape for both.
Returned(type, out) ==
    [kind |-> "return", type |-> type, code |-> 0, errno |-> "0",
     cmd |-> "", msg |-> "", out |-> out]

Raised(type, code, errno, cmd, msg, out) ==
    [kind |-> "raise", type |-> type, code |-> code, errno |-> errno,
     cmd |-> cmd, msg |-> msg, out |-> out]

NoResult ==
    [kind |-> "none", type |-> "", code |-> 0, errno |-> "0",
     cmd |-> "", msg |-> "", out |-> <<>>]

NoCall == [fn |-> "", args |-> <<>>, rs |-> FALSE, rws |-> FALSE]

\* What a frame decides once its subprocess attempt is over: finish with a
\* result, or call itself again.
Done(r) == [act |-> "done", r |-> r, call |-> NoCall]

Retry(fn, args, rs, rws) ==
    [act |-> "retry", r |-> NoResult,
     call |-> [fn |-> fn, args |-> args, rs |-> rs, rws |-> rws]]

PathHint == "Unable to locate helper program. Please check your $PATH."

HelperNotFound(o, cmd) ==
    Raised("HelperNotFoundError", 0, o.errno, cmd,
           PathHint, <<>>)

\* check_call's try/except around subprocess.check_call (lines 448-477).
CheckCallRetryMutant(args, rs, rws) == Retry("check_call", <<"sudo">> \o args, rs, rws)

CheckCallRetry(args, rs, rws) == Retry("check_call", <<"sudo">> \o args, rs, FALSE)

check_call_step(args, rs, rws, o) ==
    LET cmd == args[1] IN
    IF o.k = "oserror" THEN
        IF rws /\ (o.errno = "EPERM" \/ o.errno = "EACCES")
        THEN CheckCallRetry(args, rs, rws)
        ELSE IF o.errno # "ENOENT"
        THEN Done(Raised("OSError", 0, o.errno, "", "", <<>>))
        ELSE Done(HelperNotFound(o, cmd))
    ELSE IF o.code # 0 THEN
        IF rs THEN
            IF rws
            THEN CheckCallRetry(args, rs, rws)
            ELSE Done(Raised("HelperError", o.code, "0", cmd,
                             "Helper program exited with error", <<>>))
        ELSE Done(Returned("None", <<>>))
    ELSE Done(Returned("None", <<>>))

\* check_output's try/except around subprocess.check_output (lines 501-528).
CheckOutputRetry(args, rs, rws) == Retry("check_output", <<"sudo">> \o args, rs, FALSE)

\* except OSError (lines 507-512): only a missing executable is translated.
CheckOutputOSErrorMutant(o, cmd) == Done(Raised("OSError", 0, o.errno, "", "", <<>>))

CheckOutputOSErrorAllTypedMutant(o, cmd) == Done(HelperNotFound(o, cmd))

CheckOutputOSError(o, cmd) ==
    IF o.errno # "ENOENT"
    THEN Done(Raised("OSError", 0, o.errno, "", "", <<>>))
    ELSE Done(HelperNotFound(o, cmd))

check_output_step(args, rs, rws, o) ==
    LET cmd == args[1] IN
    IF o.k = "oserror" THEN CheckOutputOSError(o, cmd)
    ELSE IF o.code # 0 THEN
        IF ~decode_strict_ok(o.out)
        THEN Done(Raised("UnicodeDecodeError", 0, "0", "", "", <<>>))
        ELSE LET stdout == decode_strict(o.out) IN
             IF rs THEN
                 IF rws
                 THEN CheckOutputRetry(args, rs, rws)
                 ELSE Done(Raised("HelperError", o.code, "0", cmd,
                                  "Helper program exited with error", stdout))
             ELSE Done(Returned("str", stdout))
    ELSE Done(Returned("str", decode_ascii_ignore(o.out)))

step(fn, args, rs, rws, o) ==
    IF fn = "check_call" THEN check_call_step(args, rs, rws, o)
                         ELSE check_output_step(args, rs, rws, o)

\* What the caller of a retry does with what the retry gave it: check_call
\* ends with a bare "return" (line 459, 472), check_output returns the retry's
\* value (line 517); an exception passes through both.
after_retry(fn, r) ==
    IF r.kind = "raise" THEN r
    ELSE IF fn = "check_call" THEN Returned("None", <<>>)
    ELSE r

InitInvoke ==
    /\ frames = <<>>
    /\ started = <<>>
    /\ seen = <<>>
    /\ pending = NoResult
    /\ req = NoCall
    /\ res = NoResult

\* A caller invokes check_call or check_output.
TopCall ==
    /\ frames = <<>>
    /\ \E fn \in {"check_call", "check_output"}, args \in Argvs,
          rs \in BOOLEAN, rws \in BOOLEAN :
          LET c == [fn |-> fn, args |-> args, rs |-> rs, rws |-> rws] IN
          /\ req' = c
          /\ frames' = <<[call |-> c, pc |-> "try"]>>
    /\ started' = <<>>
    /\ seen' = <<>>
    /\ pending' = NoResult
    /\ res' = NoResult
    /\ UNCHANGED <<helperVars, tgzVars, val, reg, fs>>

\* The innermost frame starts its subprocess and handles what it did.
Attempt ==
    /\ frames # <<>>
    /\ frames[Len(frames)].pc = "try"
    /\ \E o \in Outcomes :
          LET f == frames[Len(frames)]
              c == f.call
              d == step(c.fn, c.args, c.rs, c.rws, o)
          IN
          /\ started' = Append(started, c.args)
          /\ seen' = Append(seen, o)
          /\ IF d.act = "retry" /\ Len(frames) < MaxDepth
             THEN /\ frames' = Append([frames EXCEPT ![Len(frames)].pc = "retrying"],
                                      [call |-> d.call, pc |-> "try"])
                  /\ pending' = NoResult
                  /\ res' = res
             ELSE IF d.act = "retry"
             THEN /\ frames' = <<>>
                  /\ pending' = NoResult
                  /\ res' = Raised("RecursionError", 0, "0", "", "", <<>>)
             ELSE /\ frames' = SubSeq(frames, 1, Len(frames) - 1)
                  /\ IF Len(frames) = 1
                     THEN res' = d.r /\ pending' = NoResult
                     ELSE res' = res /\ pending' = d.r
    /\ UNCHANGED <<req, helperVars, tgzVars, val, reg, fs>>

\* A frame whose retry has finished passes the retry's result on.
Unwind ==
    /\ frames # <<>>
    /\ frames[Len(frames)].pc = "retrying"
    /\ pending.kind # "none"
    /\ LET f == frames[Len(frames)]
           r == after_retry(f.call.fn, pending)
       IN
       /\ frames' = SubSeq(frames, 1, Len(frames) - 1)
       /\ IF Len(frames) = 1
          THEN res' = r /\ pending' = NoResult
          ELSE res' = res /\ pending' = r
    /\ UNCHANGED <<started, seen, req, helperVars, tgzVars, val, reg, fs>>

(***************************************************************************)
(* Helper entity (src/COT/helpers/helper.py, 137-317, 413-424)             *)
(***************************************************************************)

\* The helper program's name, and the package managers that may provide it.
NAME == "helper"

PMs == {"apt-get", "yum"}

\* Places on the search PATH where the helper's executable may be.
Locs == {"/usr/bin/helper", "/opt/bin/helper"}

PmLoc == "/usr/bin/pm"

\* Values of _provider_packages: the class default {} (line 197), one package
\* manager with a single package name given as a str, and two package
\* managers, the second with a list of names.
ProviderConfigs ==
    { <<>>,
      << [pm |-> "apt-get", kind |-> "str", packages |-> "helper-bin"] >>,
      << [pm |-> "apt-get", kind |-> "str", packages |-> "helper-bin"],
         [pm |-> "yum", kind |-> "list", packages |-> <<"helper", "helper-libs">>] >> }

\* Helper.__init__ (lines 180-188); version_args defaults to ['--version'].
NewHelper ==
    [path |-> "None", installed |-> "None", version |-> <<>>,
     vargs |-> <<"--version">>]

\* distutils.spawn.find_executable(name): the location on the PATH, or None.
find_executable(e, name) == e[name]

\* Helper.path (lines 212-223).  o is the object, e the environment; the
\* result holds the object afterwards, the value returned and the number of
\* searches of the PATH made.
Helper_path_flag_untouched_mutant(o, e, name) ==
    IF o.path = "None"
    THEN LET found == find_executable(e, name) IN
         [o |-> [o EXCEPT !.path = found], ret |-> found, n |-> 1]
    ELSE [o |-> o, ret |-> o.path, n |-> 0]

PathNoCacheMutant(o, e, name) ==
    LET found == find_executable(e, name) IN
    [o |-> [o EXCEPT !.path = found,
                     !.installed = IF found # "None" THEN "True" ELSE @],
     ret |-> found, n |-> 1]

Helper_path(o, e, name) ==
    IF o.path = "None"
    THEN LET found == find_executable(e, name) IN
         [o |-> [o EXCEPT !.path = found,
                          !.installed = IF found # "None" THEN "True" ELSE @],
          ret |-> found, n |-> 1]
    ELSE [o |-> o, ret |-> o.path, n |-> 0]

\* Helper.installed (lines 225-230); Helper.__bool__ (190-195) is the same.
Helper_installed(o, e, name) ==
    IF o.installed = "None"
    THEN LET p == Helper_path(o, e, name) IN
         [o |-> [p.o EXCEPT !.installed = IF p.ret # "None" THEN "True" ELSE "False"],
          ret |-> (p.ret # "None"), n |-> p.n]
    ELSE [o |-> o, ret |-> (o.installed = "True"), n |-> 0]

\* Helper.installable (lines 232-238): the first package manager of
\* _provider_packages that is installed decides.
RECURSIVE installable_from(_, _, _, _)
installable_from(i, provs, pm, e) ==
    IF i > Len(provs) THEN [pms |-> pm, ret |-> FALSE]
    ELSE LET name == provs[i].pm
             r == Helper_installed(pm[name], e, name)
             pm2 == [pm EXCEPT ![name] = r.o]
         IN IF r.ret THEN [pms |-> pm2, ret |-> TRUE]
                     ELSE installable_from(i + 1, provs, pm2, e)

Helper_installable(provs, pm, e) == installable_from(1, provs, pm, e)

\* PackageManager.install_package (lines 416-421) is abstract: the base class
\* raises NotImplementedError and each kind of package manager overrides it.
\* What one call can do: put the helper on the PATH, change nothing, fail as a
\* helper program fails, or be the base class's.
PackageEffects == {"installs", "nothing", "HelperError", "NotImplementedError"}

\* "if isinstance(packages, str): packages = [packages]" (lines 314-315):
\* the packages of one pair as a list.
packages_list(pair) ==
    IF pair.kind = "str" THEN <<pair.packages>> ELSE pair.packages

\* Helper._install (lines 308-317).  s holds the package manager objects, the
\* environment, the install_package calls made so far and the exception that
\* ended the loop ("" for none); the result is the set of ways the loop can
\* end.  i is the pair of _provider_packages being visited; j = 0 before its
\* package manager has been tested, else the package to install next.
RECURSIVE install_from(_, _, _, _)
install_from(i, j, provs, s) ==
    IF i > Len(provs) THEN {s}
    ELSE LET name == provs[i].pm IN
         IF j = 0
         THEN LET r == Helper_installed(s.pms[name], s.env, name)
                  s2 == [s EXCEPT !.pms[name] = r.o]
              IN IF ~r.ret THEN install_from(i + 1, 0, provs, s2)
                           ELSE install_from(i, 1, provs, s2)
         ELSE IF j > Len(packages_list(provs[i]))
         THEN install_from(i + 1, 0, provs, s)
         ELSE LET s3 == [s EXCEPT !.installs =
                                     Append(@, <<name, packages_list(provs[i])[j]>>)]
              IN UNION { IF eff \in {"HelperError", "NotImplementedError"}
                         THEN {[s3 EXCEPT !.exc = eff]}
                         ELSE IF eff = "installs"
                         THEN install_from(i, j + 1, provs,
                                  [s3 EXCEPT !.env[NAME] =
                                      IF @ = "None" THEN "/usr/bin/helper" ELSE @])
                         ELSE install_from(i, j + 1, provs, s3)
                       : eff \in PackageEffects }

Helper__install_first_manager_only_mutant(provs, pm, e) ==
    LET ok == { i \in 1..Len(provs) :
                   Helper_installed(pm[provs[i].pm], e, provs[i].pm).ret }
        first == IF ok = {} THEN 0 ELSE CHOOSE i \in ok : \A k \in ok : i <= k
    IN install_from(1, 0, SubSeq(provs, 1, first),
                    [pms |-> pm, env |-> e, installs |-> <<>>, exc |-> ""])

Helper__install(provs, pm, e) ==
    install_from(1, 0, provs, [pms |-> pm, env |-> e, installs |-> <<>>, exc |-> ""])

\* The state an operation threads through its steps: the helper object, the
\* package manager objects, the environment, and what it has done so far
\* (log: the answers of the user interface, the entries into install() and
\* the install_package calls, in the order they happened).
World(o, pm, e) ==
    [h |-> o, pms |-> pm, env |-> e, exc |-> "", n |-> 0, confirms |-> 0,
     installs |-> <<>>, log |-> <<>>]

\* Helper.install (lines 284-306): the set of ways it can end from w.  The
\* assertion's message ("... path is {0}".format(self.path), line 304) reads
\* path once more when the assertion fails.
Helper_install_unguarded_mutant(w1, provs) ==
    { LET w3 == [w1 EXCEPT !.pms = s.pms, !.env = s.env,
                           !.installs = @ \o s.installs,
                           !.log = @ \o [k \in 1..Len(s.installs) |->
                                            "install_package"]]
      IN IF s.exc # "" THEN [w3 EXCEPT !.exc = s.exc]
         ELSE LET p == Helper_path(w3.h, w3.env, NAME)
                  w4 == [w3 EXCEPT !.h = p.o, !.n = @ + p.n]
              IN IF p.ret = "None" THEN [w4 EXCEPT !.exc = "AssertionError"] ELSE w4
    : s \in Helper__install(provs, w1.pms, w1.env) }

Helper_install_unchecked_mutant(w1, provs) ==
    LET ib == Helper_installable(provs, w1.pms, w1.env)
        w2 == [w1 EXCEPT !.pms = ib.pms]
    IN
    IF ~ib.ret THEN {[w2 EXCEPT !.exc = "NotImplementedError"]}
    ELSE { LET w3 == [w2 EXCEPT !.pms = s.pms, !.env = s.env,
                                !.installs = @ \o s.installs,
                                !.log = @ \o [k \in 1..Len(s.installs) |->
                                                 "install_package"]]
           IN IF s.exc # "" THEN [w3 EXCEPT !.exc = s.exc] ELSE w3
         : s \in Helper__install(provs, w2.pms, w2.env) }

Helper_install_steps(w1, provs) ==
    LET ib == Helper_installable(provs, w1.pms, w1.env)
        w2 == [w1 EXCEPT !.pms = ib.pms]
    IN
    IF ~ib.ret THEN {[w2 EXCEPT !.exc = "NotImplementedError"]}
    ELSE { LET w3 == [w2 EXCEPT !.pms = s.pms, !.env = s.env,
                                !.installs = @ \o s.installs,
                                !.log = @ \o [k \in 1..Len(s.installs) |->
                                                 "install_package"]]
           IN IF s.exc # "" THEN [w3 EXCEPT !.exc = s.exc]
              ELSE LET p == Helper_path(w3.h, w3.env, NAME)
                       w4 == [w3 EXCEPT !.h = p.o, !.n = @ + p.n]
                   IN IF p.ret = "None"
                      THEN LET q == Helper_path(w4.h, w4.env, NAME) IN
                           [w4 EXCEPT !.h = q.o, !.n = @ + q.n,
                                      !.exc = "AssertionError"]
                      ELSE w4
         : s \in Helper__install(provs, w2.pms, w2.env) }

Helper_install_always_mutant(w, provs) ==
    LET i1 == Helper_installed(w.h, w.env, NAME)
        w1 == [w EXCEPT !.h = i1.o, !.n = @ + i1.n, !.log = Append(@, "install")]
    IN Helper_install_steps(w1, provs)

Helper_install(w, provs) ==
    LET i1 == Helper_installed(w.h, w.env, NAME)
        w1 == [w EXCEPT !.h = i1.o, !.n = @ + i1.n, !.log = Append(@, "install")]
    IN
    IF i1.ret THEN {w1} ELSE Helper_install_steps(w1, provs)

\* Helper.call up to its delegation (lines 267-276): the path check, the
\* consent of the user interface, the installation.

\* "if self.UI and not self.UI.confirm(...): raise HelperNotFoundError"
\* (lines 268-275): the ways the test can end, one for each answer the user
\* interface can give when there is one to ask.
ConsentIgnoredMutant(w, u) ==
    IF u # "None"
    THEN { [w EXCEPT !.confirms = @ + 1, !.log = Append(@, "confirm:False")],
           [w EXCEPT !.confirms = @ + 1, !.log = Append(@, "confirm:True")] }
    ELSE { w }

Consent(w, u) ==
    IF u # "None"
    THEN { [w EXCEPT !.confirms = @ + 1, !.log = Append(@, "confirm:False"),
                     !.exc = "HelperNotFoundError"],
           [w EXCEPT !.confirms = @ + 1, !.log = Append(@, "confirm:True")] }
    ELSE { w }

Helper_call_prepare_without_install_mutant(w, u, provs) ==
    LET p == Helper_path(w.h, w.env, NAME)
        w1 == [w EXCEPT !.h = p.o, !.n = @ + p.n]
    IN
    IF p.ret # "None" THEN {w1} ELSE Consent(w1, u)

Helper_call_prepare(w, u, provs) ==
    LET p == Helper_path(w.h, w.env, NAME)
        w1 == [w EXCEPT !.h = p.o, !.n = @ + p.n]
    IN
    IF p.ret # "None" THEN {w1}
    ELSE UNION { IF w2.exc # "" THEN {w2} ELSE Helper_install(w2, provs)
                 : w2 \in Consent(w1, u) }

\* The invocation layer run to completion: every way check_call or
\* check_output can end for call c, with the argument vectors started.
HelperOutcomes ==
    { o \in Outcomes :
         \/ o.k = "exit" /\ o.code <= 1 /\ o.out # <<>>
         \/ o.k = "oserror" /\ o.errno # "EIO" }

RECURSIVE Runs(_, _)
Runs(c, depth) ==
    UNION { LET d == step(c.fn, c.args, c.rs, c.rws, o) IN
            IF d.act = "done"
            THEN {[r |-> d.r, started |-> <<c.args>>, seen |-> <<o>>]}
            ELSE IF depth >= MaxDepth
            THEN {[r |-> Raised("RecursionError", 0, "0", "", "", <<>>),
                   started |-> <<c.args>>, seen |-> <<o>>]}
            ELSE {[r |-> after_retry(c.fn, sub.r),
                   started |-> <<c.args>> \o sub.started,
                   seen |-> <<o>> \o sub.seen]
                  : sub \in Runs(d.call, depth + 1)}
          : o \in HelperOutcomes }

\* An exception of the helper's own operations.  The one call raises when
\* the user interface declines is HelperNotFoundError(1, "Unable to proceed
\* without helper program ... check your $PATH.") (lines 271-275).
ConsentHint ==
    "Unable to proceed without helper program. Please install it and/or check your $PATH."

Exc(type) ==
    IF type = "HelperNotFoundError"
    THEN Raised(type, 1, "0", NAME, ConsentHint, <<>>)
    ELSE Raised(type, 0, "0", "", "", <<>>)

\* Helper.call(args, capture_output, require_success, retry_with_sudo)
\* (lines 252-282): the ways it can end from w.  args is the caller's list
\* as the call leaves it: line 277 inserts the name into it in place.
Helper_call(w, u, provs, args, capture, rs, rws) ==
    UNION { IF w2.exc # ""
            THEN {[w |-> w2, r |-> Exc(w2.exc), args |-> args, started |-> <<>>,
                   seen |-> <<>>]}
            ELSE LET full == <<NAME>> \o args
                     c == [fn |-> IF capture THEN "check_output" ELSE "check_call",
                           args |-> full, rs |-> rs, rws |-> rws]
                 IN { [w |-> w2,
                       r |-> IF capture \/ run.r.kind = "raise"
                             THEN run.r ELSE Returned("None", <<>>),
                       args |-> full, started |-> run.started,
                       seen |-> run.seen]
                      : run \in Runs(c, 1) }
          : w2 \in Helper_call_prepare(w, u, provs) }

\* What an operation leaves in obs; each subprocess started ends the log.
\* seen holds what each subprocess started by an access of version did (its
\* exit status and output, or the OSError of the start).
Obs(op, w, r, ret, args, startedArgs) ==
    [op |-> op, r |-> r, ret |-> ret, n |-> w.n, confirms |-> w.confirms,
     installs |-> w.installs, args |-> args, started |-> startedArgs,
     seen |-> <<>>,
     log |-> w.log \o [k \in 1..Len(startedArgs) |-> "start"]]

InitHelper ==
    /\ env \in [PMs \cup {NAME} -> {"None", PmLoc, "/usr/bin/helper"}]
    /\ env[NAME] \in {"None", "/usr/bin/helper"}
    /\ \A m \in PMs : env[m] \in {"None", PmLoc}
    /\ h = NewHelper
    /\ pms = [m \in PMs |-> NewHelper]
    /\ ui = "None"
    /\ providers \in ProviderConfigs
    /\ obs = Obs("", World(h, pms, env), NoResult, "None", <<>>, <<>>)

HelperIdle ==
    /\ env = [m \in PMs \cup {NAME} |-> "None"]
    /\ h = NewHelper
    /\ pms = [m \in PMs |-> NewHelper]
    /\ ui = "None"
    /\ providers = <<>>
    /\ obs = Obs("", World(h, pms, env), NoResult, "None", <<>>, <<>>)

\* The helper's executable appears on, moves on or leaves the search PATH.
EnvHelper ==
    /\ \E l \in (Locs \cup {"None"}) \ {env[NAME]} : env' = [env EXCEPT ![NAME] = l]
    /\ obs' = Obs("env", World(h, pms, env'), NoResult, "None", <<>>, <<>>)
    /\ UNCHANGED <<h, pms, ui, providers, invokeVars, tgzVars, val, reg, fs>>

\* A package manager appears on or leaves the search PATH.
EnvPM ==
    /\ \E m \in PMs :
          env' = [env EXCEPT ![m] = IF @ = "None" THEN PmLoc ELSE "None"]
    /\ obs' = Obs("env", World(h, pms, env'), NoResult, "None", <<>>, <<>>)
    /\ UNCHANGED <<h, pms, ui, providers, invokeVars, tgzVars, val, reg, fs>>

\* Helper.UI is set or cleared.
SetUI ==
    /\ ui' = IF ui = "None" THEN "UI" ELSE "None"
    /\ obs' = Obs("ui", World(h, pms, env), NoResult, "None", <<>>, <<>>)
    /\ UNCHANGED <<env, h, pms, providers, invokeVars, tgzVars, val, reg, fs>>

\* A caller reads helper.path.
GetPath ==
    LET p == Helper_path(h, env, NAME) IN
    /\ h' = p.o
    /\ obs' = Obs("path", [World(h', pms, env) EXCEPT !.n = p.n],
                  Returned("path", <<>>), p.ret, <<>>, <<>>)
    /\ UNCHANGED <<env, pms, ui, providers, invokeVars, tgzVars, val, reg, fs>>

\* A caller reads helper.installed.
GetInstalled ==
    LET p == Helper_installed(h, env, NAME) IN
    /\ h' = p.o
    /\ obs' = Obs("installed", [World(h', pms, env) EXCEPT !.n = p.n],
                  Returned("bool", <<>>), IF p.ret THEN "True" ELSE "False",
                  <<>>, <<>>)
    /\ UNCHANGED <<env, pms, ui, providers, invokeVars, tgzVars, val, reg, fs>>

\* A caller runs helper.install().
Install ==
    /\ \E w \in Helper_install(World(h, pms, env), providers) :
          /\ h' = w.h
          /\ pms' = w.pms
          /\ env' = w.env
          /\ obs' = Obs("install", w,
                        IF w.exc # "" THEN Exc(w.exc) ELSE Returned("None", <<>>),
                        "None", <<>>, <<>>)
    /\ UNCHANGED <<ui, providers, invokeVars, tgzVars, val, reg, fs>>

\* A caller runs helper.call(args, capture_output, **kwargs) (lines 252-282).
Call ==
    /\ \E args \in {<<"--version">>}, capture \in BOOLEAN,
          rs \in BOOLEAN, rws \in BOOLEAN :
          \E c \in Helper_call(World(h, pms, env), ui, providers,
                                args, capture, rs, rws) :
             /\ h' = c.w.h
             /\ pms' = c.w.pms
             /\ env' = c.w.env
             /\ obs' = Obs("call", c.w, c.r, "None", c.args, c.started)
    /\ UNCHANGED <<ui, providers, invokeVars, tgzVars, val, reg, fs>>

\* re.search("([0-9.]+)", output) (line 245, with the default
\* version_regexp of line 171): the first longest run of digits and dots,
\* <<>> when there is none.  Text is a sequence of character codes.
IsVersionChar(b) == b = 46 \/ (b >= 48 /\ b <= 57)

re_search_version(text) ==
    LET at == { i \in 1..Len(text) : IsVersionChar(text[i]) } IN
    IF at = {} THEN <<>>
    ELSE LET s == CHOOSE i \in at : \A j \in at : i <= j
             e == CHOOSE i \in s..Len(text) :
                     /\ \A j \in s..i : IsVersionChar(text[j])
                     /\ i = Len(text) \/ ~IsVersionChar(text[i + 1])
         IN SubSeq(text, s, e)

\* The dot-separated parts of a run of digits and dots, each as a number
\* (-1 for an empty part).
RECURSIVE version_parts(_, _, _, _)
version_parts(str, i, cur, acc) ==
    IF i > Len(str) THEN Append(acc, cur)
    ELSE IF str[i] = 46 THEN version_parts(str, i + 1, 0 - 1, Append(acc, cur))
    ELSE version_parts(str, i + 1,
                       (IF cur < 0 THEN 0 ELSE cur * 10) + (str[i] - 48), acc)

\* distutils.version.StrictVersion(str) for a run of digits and dots: two or
\* three numbers separated by dots, else ValueError; a missing third number
\* is 0.
StrictVersion_ok(str) ==
    LET parts == version_parts(str, 1, 0 - 1, <<>>) IN
    /\ Len(parts) \in {2, 3}
    /\ \A k \in 1..Len(parts) : parts[k] >= 0

StrictVersion(str) ==
    LET parts == version_parts(str, 1, 0 - 1, <<>>) IN
    IF Len(parts) = 2 THEN Append(parts, 0) ELSE parts

\* Helper.version (lines 240-250): the ways an access can end from w.  The
\* unset _version is <<>>; _version_args is the list call was given, so it
\* keeps the name call inserted.
Helper_version_nocache_mutant(w, u, provs) ==
    LET i1 == Helper_installed(w.h, w.env, NAME)
        w1 == [w EXCEPT !.h = i1.o, !.n = @ + i1.n]
    IN
    IF i1.ret
    THEN { LET w2 == [c.w EXCEPT !.h.vargs = c.args]
               found == re_search_version(c.r.out)
           IN IF c.r.kind = "raise"
              THEN [w |-> w2, r |-> c.r, started |-> c.started, seen |-> c.seen]
              ELSE IF found = <<>>
              THEN [w |-> w2, r |-> Exc("RuntimeError"), started |-> c.started,
                    seen |-> c.seen]
              ELSE IF ~StrictVersion_ok(found)
              THEN [w |-> w2, r |-> Exc("ValueError"), started |-> c.started,
                    seen |-> c.seen]
              ELSE [w |-> [w2 EXCEPT !.h.version = StrictVersion(found)],
                    r |-> Returned("StrictVersion", StrictVersion(found)),
                    started |-> c.started, seen |-> c.seen]
           : c \in Helper_call(w1, u, provs, w1.h.vargs, TRUE, FALSE, FALSE) }
    ELSE { [w |-> w1, r |-> Returned("StrictVersion", w1.h.version),
            started |-> <<>>, seen |-> <<>>] }

Helper_version(w, u, provs) ==
    LET i1 == Helper_installed(w.h, w.env, NAME)
        w1 == [w EXCEPT !.h = i1.o, !.n = @ + i1.n]
    IN
    IF i1.ret /\ w1.h.version = <<>>
    THEN { LET w2 == [c.w EXCEPT !.h.vargs = c.args]
               found == re_search_version(c.r.out)
           IN IF c.r.kind = "raise"
              THEN [w |-> w2, r |-> c.r, started |-> c.started, seen |-> c.seen]
              ELSE IF found = <<>>
              THEN [w |-> w2, r |-> Exc("RuntimeError"), started |-> c.started,
                    seen |-> c.seen]
              ELSE IF ~StrictVersion_ok(found)
              THEN [w |-> w2, r |-> Exc("ValueError"), started |-> c.started,
                    seen |-> c.seen]
              ELSE [w |-> [w2 EXCEPT !.h.version = StrictVersion(found)],
                    r |-> Returned("StrictVersion", StrictVersion(found)),
                    started |-> c.started, seen |-> c.seen]
           : c \in Helper_call(w1, u, provs, w1.h.vargs, TRUE, FALSE, FALSE) }
    ELSE { [w |-> w1,
            r |-> IF w1.h.version = <<>> THEN Returned("None", <<>>)
                  ELSE Returned("StrictVersion", w1.h.version),
            started |-> <<>>, seen |-> <<>>] }

\* A caller reads helper.version.
GetVersion ==
    /\ Len(h.vargs) <= MaxVersionArgs
    /\ \E v \in Helper_version(World(h, pms, env), ui, providers) :
          /\ h' = v.w.h
          /\ pms' = v.w.pms
          /\ env' = v.w.env
          /\ obs' = [Obs("version", v.w, v.r, "None", v.w.h.vargs, v.started)
                       EXCEPT !.seen = v.seen]
    /\ UNCHANGED <<ui, providers, invokeVars, tgzVars, val, reg, fs>>

NextVersion == EnvHelper \/ GetPath \/ GetInstalled \/ Install \/ GetVersion

NextHelper == EnvHelper \/ EnvPM \/ SetUI \/ GetPath \/ GetInstalled \/ Install \/ Call

NextInvoke == TopCall \/ Attempt \/ Unwind

(***************************************************************************)
(* Scoped download (src/COT/helpers/helper.py, 93-105 and 319-356)         *)
(***************************************************************************)

URLs == {"http://example.com/foo.tgz", "http://example.com/bar.tar.gz"}

\* The members of the archive behind each URL.
Members(url) ==
    IF url = "http://example.com/foo.tgz" THEN {"bin/foo"}
    ELSE {"bin/bar", "lib/bar.so"}

NoTgz == [pc |-> "idle", url |-> "", d |-> 0, exc |-> "", made |-> 0, result |-> ""]

TgzIdle ==
    /\ tgz = NoTgz
    /\ tmpdirs = {}
    /\ files = {}

\* shutil.rmtree(tempdir): the directory and everything in it.
rmtree_dirs(dirs, d) == dirs \ {d}

rmtree_files(fl, d) == { f \in fl : f[1] # d }

\* TemporaryDirectory leaving its with block (lines 102-105, "finally:
\* shutil.rmtree(tempdir)"): the directories that exist afterwards.
CleanupOnSuccessOnlyMutant(dirs, d, exc) ==
    IF exc = "" THEN rmtree_dirs(dirs, d) ELSE dirs

TemporaryDirectory_exit(dirs, d, exc) == rmtree_dirs(dirs, d)

\* "with TemporaryDirectory(prefix="cot_helper") as d" (line 338):
\* tempfile.mkdtemp makes a directory no earlier call has used.
TgzEnter ==
    /\ tgz.pc \in {"idle", "left"}
    /\ tgz.made < MaxDownloads
    /\ \E url \in URLs :
          tgz' = [pc |-> "get", url |-> url, d |-> tgz.made + 1, exc |-> "",
                  made |-> tgz.made + 1, result |-> ""]
    /\ tmpdirs' = tmpdirs \cup {tgz.made + 1}
    /\ UNCHANGED <<files, invokeVars, helperVars, val, reg, fs>>

\* requests.get(url, stream=True) (line 341): a response, or an exception.
TgzGet ==
    /\ tgz.pc = "get"
    /\ \/ tgz' = [tgz EXCEPT !.pc = "write"]
       \/ tgz' = [tgz EXCEPT !.pc = "exit", !.exc = "ConnectionError"]
    /\ UNCHANGED <<tmpdirs, files, invokeVars, helperVars, val, reg, fs>>

\* open(tgz, 'wb') and shutil.copyfileobj (lines 342-345): helper.tgz is
\* created in the directory; the copy ends or the connection breaks.
TgzWrite ==
    /\ tgz.pc = "write"
    /\ files' = files \cup {<<tgz.d, "helper.tgz">>}
    /\ \/ tgz' = [tgz EXCEPT !.pc = "extract"]
       \/ tgz' = [tgz EXCEPT !.pc = "exit", !.exc = "IOError"]
    /\ UNCHANGED <<tmpdirs, invokeVars, helperVars, val, reg, fs>>

\* tarfile.open and extractall (lines 348-352): every member is extracted,
\* or the archive is bad and some members, or none, are.
TgzExtract ==
    /\ tgz.pc = "extract"
    /\ \/ /\ files' = files \cup { <<tgz.d, m>> : m \in Members(tgz.url) }
          /\ tgz' = [tgz EXCEPT !.pc = "yield"]
       \/ \E some \in SUBSET Members(tgz.url) :
             /\ some # Members(tgz.url)
             /\ files' = files \cup { <<tgz.d, m>> : m \in some }
             /\ tgz' = [tgz EXCEPT !.pc = "exit", !.exc = "ReadError"]
    /\ UNCHANGED <<tmpdirs, invokeVars, helperVars, val, reg, fs>>

\* "yield d" (line 354): the caller's block runs with the directory.
TgzYield ==
    /\ tgz.pc = "yield"
    /\ tgz' = [tgz EXCEPT !.pc = "block"]
    /\ UNCHANGED <<tmpdirs, files, invokeVars, helperVars, val, reg, fs>>

\* The caller's block ends, normally or by raising; the exception is thrown
\* into the generator at the yield, whose finally (lines 355-356) only logs.
TgzBlockEnds ==
    /\ tgz.pc = "block"
    /\ \E work \in SUBSET {"work.log", "out.bin"} :
          files' = files \cup { <<tgz.d, f>> : f \in work }
    /\ \/ tgz' = [tgz EXCEPT !.pc = "exit"]
       \/ tgz' = [tgz EXCEPT !.pc = "exit", !.exc = "BlockError"]
    /\ UNCHANGED <<tmpdirs, invokeVars, helperVars, val, reg, fs>>

\* Control leaves "with TemporaryDirectory(...)": the directory is removed
\* and the exception, if any, goes on to the caller.
TgzExit ==
    /\ tgz.pc = "exit"
    /\ tmpdirs' = TemporaryDirectory_exit(tmpdirs, tgz.d, tgz.exc)
    /\ files' = { f \in files : f[1] \in tmpdirs' }
    /\ tgz' = [tgz EXCEPT !.pc = "left",
                          !.result = IF tgz.exc = "" THEN "normal" ELSE tgz.exc]
    /\ UNCHANGED <<invokeVars, helperVars, val, reg, fs>>

NextTgz ==
    TgzEnter \/ TgzGet \/ TgzWrite \/ TgzExtract \/ TgzYield \/ TgzBlockEnds \/ TgzExit

(***************************************************************************)
(* Validation utilities (src/COT/data_validation.py)                       *)
(***************************************************************************)

\* str(n) for an integer n, as a sequence of characters.
Digits == <<"0", "1", "2", "3", "4", "5", "6", "7", "8", "9">>

RECURSIVE NatToStr(_)
NatToStr(n) ==
    IF n < 10 THEN <<Digits[n + 1]>>
    ELSE NatToStr(n \div 10) \o <<Digits[(n % 10) + 1]>>

IntToStr(i) == IF i < 0 THEN <<"-">> \o NatToStr(0 - i) ELSE NatToStr(i)

IsDigit(c) == \E k \in 1..10 : Digits[k] = c

DigitValue(c) == (CHOOSE k \in 1..10 : Digits[k] = c) - 1

\* str.strip(): leading and trailing whitespace removed.
IsSpace(c) == c \in {" ", "\t", "\n", "\r"}

RECURSIVE lstrip(_)
lstrip(str) ==
    IF str # <<>> /\ IsSpace(Head(str)) THEN lstrip(Tail(str)) ELSE str

RECURSIVE rstrip(_)
rstrip(str) ==
    IF str # <<>> /\ IsSpace(str[Len(str)])
    THEN rstrip(SubSeq(str, 1, Len(str) - 1)) ELSE str

strip(str) == rstrip(lstrip(str))

\* ---- check_for_conflict (lines 56-71) and to_string (lines 21-26) ----

\* Python values: None, integers, strings, and XML elements, which compare
\* by identity (id) and are rendered by their serialised form (text).
PyNone == [t |-> "None", n |-> 0, text |-> <<>>]

PyInt(n) == [t |-> "int", n |-> n, text |-> <<>>]

PyFloat(n) == [t |-> "float", n |-> n, text |-> <<>>]

PyStr(str) == [t |-> "str", n |-> 0, text |-> str]

PyElement(id, xml) == [t |-> "Element", n |-> id, text |-> xml]

Candidates ==
    { PyNone, PyInt(1), PyInt(2), PyFloat(1), PyStr(<<"1">>),
      PyElement(1, <<"<", "a", "/", ">">>), PyElement(2, <<"<", "a", "/", ">">>) }

\* obj1 == obj2 as Python decides it: numbers by value whatever their type
\* (1 == 1.0), an Element only with itself, a string with the same string.
py_eq(a, b) ==
    IF a.t \in {"int", "float"} /\ b.t \in {"int", "float"} THEN a.n = b.n
    ELSE a = b

to_string(obj) ==
    IF obj.t = "Element" THEN obj.text
    ELSE IF obj.t = "int" THEN IntToStr(obj.n)
    ELSE IF obj.t = "float" THEN IntToStr(obj.n) \o <<".", "0">>
    ELSE IF obj.t = "None" THEN <<"N", "o", "n", "e">>
    ELSE obj.text

\* The inner loop "for obj2 in li[(i+1):]": the first later entry that is
\* not None and differs from li[i], or 0 when there is none.
later_entries_adjacent_mutant(li, i) == IF i < Len(li) THEN {i + 1} ELSE {}

later_entries(li, i) == (i + 1)..Len(li)

first_conflict(li, i) ==
    LET bad == { j \in later_entries(li, i) : li[j] # PyNone /\ ~py_eq(li[i], li[j]) }
    IN IF bad = {} THEN 0 ELSE CHOOSE j \in bad : \A k \in bad : j <= k

RECURSIVE conflict_scan_keeps_first_mutant(_, _, _, _)
conflict_scan_keeps_first_mutant(label, li, i, obj) ==
    IF i > Len(li) THEN [type |-> "return", ret |-> obj, label |-> label,
                         first |-> <<>>, second |-> <<>>]
    ELSE IF li[i] = PyNone
    THEN conflict_scan_keeps_first_mutant(label, li, i + 1, obj)
    ELSE LET j == first_conflict(li, i) IN
         IF j # 0
         THEN [type |-> "ValueMismatchError", ret |-> PyNone, label |-> label,
               first |-> to_string(li[i]), second |-> to_string(li[j])]
         ELSE conflict_scan_keeps_first_mutant(label, li, i + 1,
                                               IF obj = PyNone THEN li[i] ELSE obj)

RECURSIVE conflict_scan(_, _, _, _)
conflict_scan(label, li, i, obj) ==
    IF i > Len(li) THEN [type |-> "return", ret |-> obj, label |-> label,
                         first |-> <<>>, second |-> <<>>]
    ELSE IF li[i] = PyNone THEN conflict_scan(label, li, i + 1, obj)
    ELSE LET j == first_conflict(li, i) IN
         IF j # 0
         THEN [type |-> "ValueMismatchError", ret |-> PyNone, label |-> label,
               first |-> to_string(li[i]), second |-> to_string(li[j])]
         ELSE conflict_scan(label, li, i + 1, li[i])

check_for_conflict(label, li) == conflict_scan(label, li, 1, PyNone)

\* ---- validate_int (lines 112-124) ----

\* int(string): optional surrounding whitespace, an optional sign, then one
\* or more digits; anything else is a ValueError.
int_body(str) ==
    LET t == strip(str) IN
    IF t # <<>> /\ Head(t) \in {"+", "-"} THEN Tail(t) ELSE t

int_parses(str) ==
    LET b == int_body(str) IN
    b # <<>> /\ \A k \in 1..Len(b) : IsDigit(b[k])

RECURSIVE digits_value(_)
digits_value(ds) ==
    IF ds = <<>> THEN 0
    ELSE 10 * digits_value(SubSeq(ds, 1, Len(ds) - 1)) + DigitValue(ds[Len(ds)])

int_value(str) ==
    LET t == strip(str) IN
    IF Head(t) = "-" THEN 0 - digits_value(int_body(str))
    ELSE digits_value(int_body(str))

\* An optional bound: None, or an integer.
NoBound == [set |-> FALSE, v |-> 0]

Bound(v) == [set |-> TRUE, v |-> v]

\* What validate_int gives: the integer returned (type "int"), or the error
\* raised with its value_type (label), its actual_value (num, or text for a
\* string) and its expected_value (expected, or what for a description).
IntResult(type, label, num, text, expected, what) ==
    [type |-> type, label |-> label, num |-> num, text |-> text,
     expected |-> expected, what |-> what]

validate_int_inclusive_mutant(str, min, max, label) ==
    IF ~int_parses(str)
    THEN IntResult("ValueUnsupportedError", label, 0, str, 0, "integer")
    ELSE LET i == int_value(str) IN
         IF min.set /\ i <= min.v
         THEN IntResult("ValueTooLowError", label, i, <<>>, min.v, "")
         ELSE IF max.set /\ i >= max.v
         THEN IntResult("ValueTooHighError", label, i, <<>>, max.v, "")
         ELSE IntResult("int", label, i, <<>>, 0, "")

validate_int(str, min, max, label) ==
    IF ~int_parses(str)
    THEN IntResult("ValueUnsupportedError", label, 0, str, 0, "integer")
    ELSE LET i == int_value(str) IN
         IF min.set /\ i < min.v
         THEN IntResult("ValueTooLowError", label, i, <<>>, min.v, "")
         ELSE IF max.set /\ i > max.v
         THEN IntResult("ValueTooHighError", label, i, <<>>, max.v, "")
         ELSE IntResult("int", label, i, <<>>, 0, "")

\* ---- mac_address (lines 74-88) ----

IsHex(c) ==
    IsDigit(c) \/ c \in {"a", "b", "c", "d", "e", "f", "A", "B", "C", "D", "E", "F"}

\* re.match("([0-9a-fA-F]{glen}SEP){n-1}[0-9a-fA-F]{glen}$", str): n groups
\* of glen hex digits with sep between them, from the start of the string;
\* "$" matches at the end of the string and before a newline that ends it.
mac_regex_any_separator_mutant(str, n, glen, sep) ==
    LET body == n * glen + (n - 1) IN
    /\ Len(str) >= body
    /\ \A k \in 1..body :
          IF k % (glen + 1) = 0 THEN str[k] \in {":", "-", "."} ELSE IsHex(str[k])
    /\ \/ Len(str) = body
       \/ Len(str) = body + 1 /\ str[body + 1] = "\n"

mac_regex(str, n, glen, sep) ==
    LET body == n * glen + (n - 1) IN
    /\ Len(str) >= body
    /\ \A k \in 1..body :
          IF k % (glen + 1) = 0 THEN str[k] = sep ELSE IsHex(str[k])
    /\ \/ Len(str) = body
       \/ Len(str) = body + 1 /\ str[body + 1] = "\n"

mac_address(str) ==
    LET t == strip(str) IN
    IF ~ (\/ mac_regex(t, 6, 2, ":")
          \/ mac_regex(t, 6, 2, "-")
          \/ mac_regex(t, 3, 4, "."))
    THEN [type |-> "InvalidInputError", ret |-> <<>>, quoted |-> t]
    ELSE [type |-> "str", ret |-> t, quoted |-> <<>>]

\* ---- natural_sort (lines 29-43) ----

\* Code points, for comparing text: the characters in ASCII order.
AsciiOrder ==
    <<" ", "-", ".", "0", "1", "2", "3", "4", "5", "6", "7", "8", "9", ":",
      "A", "B", "C", "D", "E", "F", "a", "b", "c", "d", "e", "f", "g", "i",
      "l", "m", "t", "x">>

Ord(c) == CHOOSE k \in 1..Len(AsciiOrder) : AsciiOrder[k] = c

\* str < str in Python: by code point, a proper prefix first.
RECURSIVE text_less(_, _)
text_less(a, b) ==
    IF b = <<>> THEN FALSE
    ELSE IF a = <<>> THEN TRUE
    ELSE IF Head(a) # Head(b) THEN Ord(Head(a)) < Ord(Head(b))
    ELSE text_less(Tail(a), Tail(b))

\* A key element: a text segment or the integer of a digit run.
KeyText(str) == [num |-> FALSE, n |-> 0, text |-> str]

KeyNum(n) == [num |-> TRUE, n |-> n, text |-> <<>>]

\* convert(text): "int(text) if text.isdigit() else text" (lines 35-36).
convert_text_only_mutant(seg) == KeyText(seg)

convert(seg) ==
    IF seg # <<>> /\ \A k \in 1..Len(seg) : IsDigit(seg[k])
    THEN KeyNum(digits_value(seg))
    ELSE KeyText(seg)

\* re.split('([0-9]+)', key): the text between the digit runs and the digit
\* runs themselves, alternating, text first and last (possibly empty).
RECURSIVE span(_, _)
span(str, digit) ==
    IF str # <<>> /\ (IsDigit(Head(str)) <=> digit)
    THEN 1 + span(Tail(str), digit) ELSE 0

RECURSIVE re_split(_)
re_split(str) ==
    LET t == span(str, FALSE)
        rest == SubSeq(str, t + 1, Len(str))
        d == span(rest, TRUE)
    IN IF d = 0 THEN <<str>>
       ELSE <<SubSeq(str, 1, t), SubSeq(rest, 1, d)>>
            \o re_split(SubSeq(rest, d + 1, Len(rest)))

\* alphanum_key (lines 39-40).
alphanum_key(key) ==
    LET segs == re_split(key) IN [k \in 1..Len(segs) |-> convert(segs[k])]

\* One element of a key compared with one of another: numbers as numbers,
\* text as text.  A number against text does not occur between two keys of
\* alphanum_key, which both alternate text, number, text; Python 2 puts the
\* number first.
elem_less(a, b) ==
    IF a.num /\ b.num THEN a.n < b.n
    ELSE IF ~a.num /\ ~b.num THEN text_less(a.text, b.text)
    ELSE a.num

\* list < list in Python: the first differing elements decide, a proper
\* prefix comes first.
RECURSIVE key_less(_, _)
key_less(a, b) ==
    IF b = <<>> THEN FALSE
    ELSE IF a = <<>> THEN TRUE
    ELSE IF Head(a) # Head(b) THEN elem_less(Head(a), Head(b))
    ELSE key_less(Tail(a), Tail(b))

\* sorted(l, key=alphanum_key): a stable sort; each element goes after the
\* elements already placed whose key is not greater than its own.
RECURSIVE insert_sorted(_, _)
insert_sorted(out, x) ==
    IF out = <<>> THEN <<x>>
    ELSE IF key_less(alphanum_key(x), alphanum_key(out[Len(out)]))
    THEN Append(insert_sorted(SubSeq(out, 1, Len(out) - 1), x), out[Len(out)])
    ELSE Append(out, x)

RECURSIVE sorted_by_key(_, _)
sorted_by_key(l, k) ==
    IF k = 0 THEN <<>> ELSE insert_sorted(sorted_by_key(l, k - 1), l[k])

natural_sort(l) == sorted_by_key(l, Len(l))

\* ---- match_or_die (lines 46-53) ----

match_or_die(first_label, first, second_label, second) ==
    IF ~py_eq(first, second)
    THEN [type |-> "ValueMismatchError", first_label |-> first_label,
          first |-> to_string(first), second_label |-> second_label,
          second |-> to_string(second)]
    ELSE [type |-> "return", first_label |-> first_label, first |-> <<>>,
          second_label |-> second_label, second |-> <<>>]

\* ---- device_address (lines 91-98) ----

\* re.match("\d+:\d+$", string): digits, a colon, digits, the end.
device_regex(str) ==
    \E k \in 2..(Len(str) - 1) :
       /\ str[k] = ":"
       /\ \A i \in 1..Len(str) : i # k => IsDigit(str[i])

device_address(str) ==
    LET t == strip(str) IN
    IF ~device_regex(t)
    THEN [type |-> "InvalidInputError", ret |-> <<>>, quoted |-> t]
    ELSE [type |-> "str", ret |-> t, quoted |-> <<>>]

\* ---- no_whitespace (lines 101-109) ----

\* len(string.split()): the number of runs of characters that are not
\* whitespace.
split_count(str) ==
    Cardinality({ i \in 1..Len(str) :
                    ~IsSpace(str[i]) /\ (i = 1 \/ IsSpace(str[i - 1])) })

no_whitespace(str) ==
    LET t == strip(str) IN
    IF split_count(t) > 1
    THEN [type |-> "InvalidInputError", ret |-> <<>>, quoted |-> t]
    ELSE [type |-> "str", ret |-> t, quoted |-> <<>>]

\* ---- error classes (lines 140-196) ----

\* The base named in each class statement ("" above Exception).
Bases_unsupported_is_value_error_mutant(cls) ==
    IF cls \in {"ValueMismatchError", "InvalidInputError", "ValueUnsupportedError"}
    THEN "ValueError"
    ELSE IF cls \in {"ValueTooLowError", "ValueTooHighError"}
    THEN "ValueUnsupportedError"
    ELSE IF cls = "ValueError" THEN "Exception"
    ELSE ""

Bases(cls) ==
    IF cls \in {"ValueMismatchError", "InvalidInputError"} THEN "ValueError"
    ELSE IF cls = "ValueUnsupportedError" THEN "InvalidInputError"
    ELSE IF cls \in {"ValueTooLowError", "ValueTooHighError"}
    THEN "ValueUnsupportedError"
    ELSE IF cls = "ValueError" THEN "Exception"
    ELSE ""

\* issubclass(c, d): what `except d` catches.
RECURSIVE issubclass(_, _)
issubclass(c, d) ==
    \/ c = d
    \/ Bases(c) # "" /\ issubclass(Bases(c), d)

\* The classes of the exceptions the utilities raise.
ErrorClasses ==
    {"ValueMismatchError", "InvalidInputError", "ValueUnsupportedError",
     "ValueTooLowError", "ValueTooHighError"}

\* ---- the calls made on the validation utilities ----

\* All sequences over S of length at most n.
SeqsUpTo(S, n) == UNION { [1..k -> S] : k \in 0..n }

ConflictCalls ==
    { [op |-> "check_for_conflict", done |-> FALSE,
       in |-> [label |-> "disk", li |-> li]]
      : li \in SeqsUpTo(Candidates, MaxCandidates) }

MinBounds == { NoBound, Bound(0 - 3), Bound(0), Bound(5) }

MaxBounds == { NoBound, Bound(0 - 1), Bound(4), Bound(10) }

IntChars == {"1", "7", "-", "+", " ", "x"}

\* validate_int on str(i) for an integer i (of |-> "int"), and on any string
\* over IntChars (of |-> "str").
IntCalls ==
    { [op |-> "validate_int", done |-> FALSE,
       in |-> [of |-> "int", i |-> i, str |-> IntToStr(i),
               min |-> lo, max |-> hi, label |-> "input"]]
      : i \in (0 - MaxInt)..MaxInt, lo \in MinBounds, hi \in MaxBounds }
    \cup
    { [op |-> "validate_int", done |-> FALSE,
       in |-> [of |-> "str", i |-> 0, str |-> str,
               min |-> lo, max |-> hi, label |-> "input"]]
      : str \in SeqsUpTo(IntChars, MaxIntChars), lo \in MinBounds, hi \in MaxBounds }

\* Strings given to mac_address: groups of characters joined by separators,
\* with whitespace around.  All groups but at most one are the same, and all
\* separators but at most one.
MacGroups == { <<"0", "a">>, <<"F", "9">>, <<"0", "a", "F", "9">> }

OddGroups ==
    { <<"0", "g">>, <<"0">>, <<"0", "a", "1">>, <<"c", "D">>, <<"c", "D", "1", "2">> }

MacSeps == {":", "-", "."}

MacCounts == {2, 3, 5, 6, 7}

MacPads == { <<<<>>, <<>>>>, <<<<" ">>, <<"\t", "\n">>>>, <<<<>>, <<"\n">>>> }

RECURSIVE Join(_, _)
Join(groups, seps) ==
    IF Len(groups) = 1 THEN groups[1]
    ELSE groups[1] \o <<seps[1]>> \o Join(Tail(groups), Tail(seps))

MacShapes ==
    { [groups |-> [k \in 1..n |-> IF k = kOdd THEN og ELSE g],
       seps |-> [k \in 1..(n - 1) |-> IF k = jOdd THEN osep ELSE sep]]
      : n \in MacCounts, g \in MacGroups, og \in OddGroups,
        kOdd \in {0, 1, 7}, sep \in MacSeps, osep \in MacSeps, jOdd \in {0, 1, 5} }

MacCalls ==
    { [op |-> "mac_address", done |-> FALSE,
       in |-> [groups |-> sh.groups, seps |-> sh.seps,
               str |-> pad[1] \o Join(sh.groups, sh.seps) \o pad[2]]]
      : sh \in MacShapes, pad \in MacPads }

SortPrefixes == { <<>>, <<"i", "t", "e", "m">>, <<"f", "9">> }

SortNums == {1, 2, 9, 10}

SortItems ==
    { p \o NatToStr(m) : p \in SortPrefixes, m \in SortNums }
    \cup { <<"i", "t", "e", "m", "0", "1">> }

SortCalls ==
    { [op |-> "natural_sort", done |-> FALSE, in |-> [l |-> l]]
      : l \in SeqsUpTo(SortItems, MaxSortLen) }

AddrChars == {"1", ":", " ", "\t", "a"}

DeviceCalls ==
    { [op |-> "device_address", done |-> FALSE, in |-> [str |-> s]]
      : s \in SeqsUpTo(AddrChars, MaxAddrChars) }

NoWhitespaceCalls ==
    { [op |-> "no_whitespace", done |-> FALSE, in |-> [str |-> s]]
      : s \in SeqsUpTo(AddrChars, MaxAddrChars) }

MatchCalls ==
    { [op |-> "match_or_die", done |-> FALSE,
       in |-> [first_label |-> "file", first |-> a,
               second_label |-> "disk", second |-> b]]
      : a \in Candidates, b \in Candidates }

InitVal ==
    val \in ConflictCalls \cup IntCalls \cup MacCalls \cup SortCalls
            \cup DeviceCalls \cup NoWhitespaceCalls \cup MatchCalls

CallMatchOrDie ==
    /\ val.op = "match_or_die" /\ ~val.done
    /\ val' = [op |-> val.op, done |-> TRUE, in |-> val.in,
               out |-> match_or_die(val.in.first_label, val.in.first,
                                    val.in.second_label, val.in.second)]
    /\ UNCHANGED <<invokeVars, helperVars, tgzVars, reg, fs>>

CallDeviceAddress ==
    /\ val.op = "device_address" /\ ~val.done
    /\ val' = [op |-> val.op, done |-> TRUE, in |-> val.in,
               out |-> device_address(val.in.str)]
    /\ UNCHANGED <<invokeVars, helperVars, tgzVars, reg, fs>>

CallNoWhitespace ==
    /\ val.op = "no_whitespace" /\ ~val.done
    /\ val' = [op |-> val.op, done |-> TRUE, in |-> val.in,
               out |-> no_whitespace(val.in.str)]
    /\ UNCHANGED <<invokeVars, helperVars, tgzVars, reg, fs>>

CallCheckForConflict ==
    /\ val.op = "check_for_conflict" /\ ~val.done
    /\ val' = [op |-> val.op, done |-> TRUE, in |-> val.in,
               out |-> check_for_conflict(val.in.label, val.in.li)]
    /\ UNCHANGED <<invokeVars, helperVars, tgzVars, reg, fs>>

CallValidateInt ==
    /\ val.op = "validate_int" /\ ~val.done
    /\ val' = [op |-> val.op, done |-> TRUE, in |-> val.in,
               out |-> validate_int(val.in.str, val.in.min, val.in.max,
                                    val.in.label)]
    /\ UNCHANGED <<invokeVars, helperVars, tgzVars, reg, fs>>

CallMacAddress ==
    /\ val.op = "mac_address" /\ ~val.done
    /\ val' = [op |-> val.op, done |-> TRUE, in |-> val.in,
               out |-> mac_address(val.in.str)]
    /\ UNCHANGED <<invokeVars, helperVars, tgzVars, reg, fs>>

CallNaturalSort ==
    /\ val.op = "natural_sort" /\ ~val.done
    /\ val' = [op |-> val.op, done |-> TRUE, in |-> val.in,
               out |-> natural_sort(val.in.l)]
    /\ UNCHANGED <<invokeVars, helperVars, tgzVars, reg, fs>>

NextVal ==
    \/ CallCheckForConflict \/ CallValidateInt \/ CallMacAddress \/ CallNaturalSort
    \/ CallMatchOrDie \/ CallDeviceAddress \/ CallNoWhitespace

(***************************************************************************)
(* Registry (src/COT/helpers/helper.py, 116-134 and 409-424)               *)
(***************************************************************************)

\* Names looked up in the registry.
RegNames == {"qemu-img", "vmdktool", "fatdisk"}

\* The factory of helpers = HelperDict(Helper): Helper(key), whose __init__
\* stores the key as _name (line 180).  id tells the instances apart.
Helper_factory(key, id) == [id |-> id, name |-> key]

\* An empty HelperDict: items is the dict (a function on the keys present),
\* made the keys the factory was called with, in order.
NewHelperDict == [items |-> <<>>, made |-> <<>>]

\* dict.__setitem__(key, value).
dict_setitem(items, key, value) ==
    [k \in (DOMAIN items) \cup {key} |-> IF k = key THEN value ELSE items[k]]

\* HelperDict.__missing__(key) (lines 128-134): the dictionary afterwards and
\* the value returned.
HelperDict_missing_keyless_mutant(d, key) ==
    LET made == Append(d.made, key)
        d2 == [items |-> dict_setitem(d.items, key, Helper_factory("", Len(made))),
               made |-> made]
    IN [d |-> d2, ret |-> d2.items[key]]

HelperDict_missing(d, key) ==
    LET made == Append(d.made, key)
        d2 == [items |-> dict_setitem(d.items, key, Helper_factory(key, Len(made))),
               made |-> made]
    IN [d |-> d2, ret |-> d2.items[key]]

\* dict.__getitem__(key): the entry when the key is present, else what
\* __missing__ gives.
HelperDict_getitem(d, key) ==
    IF key \in DOMAIN d.items THEN [d |-> d, ret |-> d.items[key]]
    ELSE HelperDict_missing(d, key)

NoInstance == [id |-> 0, name |-> ""]

RegIdle == reg = [d |-> NewHelperDict, key |-> "", ret |-> NoInstance, lookups |-> 0]

\* A caller looks a name up: helpers[key].
Lookup ==
    /\ reg.lookups < MaxLookups
    /\ \E key \in RegNames :
          LET g == HelperDict_getitem(reg.d, key) IN
          reg' = [d |-> g.d, key |-> key, ret |-> g.ret, lookups |-> reg.lookups + 1]
    /\ UNCHANGED <<invokeVars, helperVars, tgzVars, val, fs>>

NextReg == Lookup

\* The registry used by several threads at once.  The interpreter may switch
\* threads between any two bytecodes, so helpers[key] is four steps: the
\* dictionary lookup (which, the key missing, enters __missing__), the call
\* of the factory, the store self[key] = ... (line 133), and the lookup of
\* "return self[key]" (line 134).  There is no lock in HelperDict.
Threads == 1..MaxThreads

IdleThread == [pc |-> "idle", key |-> "", inst |-> NoInstance, ret |-> NoInstance]

InitThreads ==
    reg = [d |-> NewHelperDict, lookups |-> 0, th |-> [t \in Threads |-> IdleThread]]

\* Thread t evaluates helpers[key]: dict.__getitem__ finds the entry, or
\* enters __missing__.
ThreadGetitem ==
    /\ reg.lookups < MaxLookups
    /\ \E t \in Threads, key \in RegNames :
          /\ reg.th[t].pc \in {"idle", "done"}
          /\ reg' = [reg EXCEPT
                       !.lookups = @ + 1,
                       !.th[t] = IF key \in DOMAIN reg.d.items
                                 THEN [pc |-> "done", key |-> key,
                                       inst |-> NoInstance,
                                       ret |-> reg.d.items[key]]
                                 ELSE [pc |-> "missing", key |-> key,
                                       inst |-> NoInstance, ret |-> NoInstance]]
    /\ UNCHANGED <<invokeVars, helperVars, tgzVars, val, fs>>

\* Thread t, in __missing__, calls self.factory(key).
ThreadFactory ==
    /\ \E t \in Threads :
          /\ reg.th[t].pc = "missing"
          /\ LET made == Append(reg.d.made, reg.th[t].key) IN
             reg' = [reg EXCEPT
                       !.d.made = made,
                       !.th[t].inst = Helper_factory(reg.th[t].key, Len(made)),
                       !.th[t].pc = "store"]
    /\ UNCHANGED <<invokeVars, helperVars, tgzVars, val, fs>>

\* Thread t stores its instance: self[key] = ...
ThreadStore ==
    /\ \E t \in Threads :
          /\ reg.th[t].pc = "store"
          /\ reg' = [reg EXCEPT
                       !.d.items = dict_setitem(@, reg.th[t].key, reg.th[t].inst),
                       !.th[t].pc = "return"]
    /\ UNCHANGED <<invokeVars, helperVars, tgzVars, val, fs>>

\* Thread t returns self[key].
ThreadReturn ==
    /\ \E t \in Threads :
          /\ reg.th[t].pc = "return"
          /\ reg' = [reg EXCEPT
                       !.th[t].ret = reg.d.items[reg.th[t].key],
                       !.th[t].pc = "done"]
    /\ UNCHANGED <<invokeVars, helperVars, tgzVars, val, fs>>

NextThreads == ThreadGetitem \/ ThreadFactory \/ ThreadStore \/ ThreadReturn

(***************************************************************************)
(* mkdir and cp (src/COT/helpers/helper.py, 358-406)                       *)
(***************************************************************************)

\* Directories mkdir is asked for, and what is at such a path beforehand.
Dirs == {"/opt/cot", "/usr/local/bin", "/usr/local/man/man1"}

PathStates == {"dir", "file", "absent"}

\* The part of the filesystem mkdir looks at: for each path what is there
\* and, for a directory, its permissions in octal ('%o' % permissions).
\* The default permissions of mkdir are 0o755 (line 359).
DefaultMode == "755"

Entries ==
    { [kind |-> "absent", mode |-> ""], [kind |-> "file", mode |-> ""],
      [kind |-> "dir", mode |-> "700"], [kind |-> "dir", mode |-> DefaultMode] }

Disks == [Dirs -> Entries]

\* How many times in a row mkdir is called on one path.
MaxRepeats == 3

\* The files cp copies, as <<src, dest>>.
Copies == { <<"cot.1", "/usr/local/man/man1">>, <<"vmdktool", "/usr/local/bin">> }

\* What os.makedirs or shutil.copy does: succeed, or raise OSError.
PlainOutcomes == {"ok"} \cup Errnos

\* The OSError of the plain operation; cmd holds its filename.
PlainError(errno, filename) == Raised("OSError", 0, errno, filename, "", <<>>)

\* "try: check_call(['sudo', ...]) except HelperError: raise e" (lines
\* 379-385 and 400-405): what reaches the caller, given the original error
\* e and what check_call did.
after_sudo(e, r) ==
    IF r.kind = "raise"
    THEN IF r.type = "HelperError" THEN e ELSE r
    ELSE Returned("bool", <<>>)

\* Helper.mkdir from its try statement on (lines 372-386), with the default
\* permissions: os.makedirs does what plain says, and a failure of it is
\* followed by sudo mkdir.  plain is what os.makedirs did; made tells that
\* the directory was created, by os.makedirs or by a sudo mkdir that exited
\* with status 0.
Helper_mkdir_create(directory, plain) ==
    IF plain = "ok"
    THEN {[r |-> Returned("bool", <<>>), sudo |-> NoResult, started |-> <<>>,
           plain |-> plain, made |-> TRUE]}
    ELSE { [r |-> after_sudo(PlainError(plain, directory), run.r),
            sudo |-> run.r, started |-> run.started,
            plain |-> plain, made |-> run.r.kind = "return"]
           : run \in Runs([fn |-> "check_call",
                           args |-> <<"sudo", "mkdir", "-p",
                                      "--mode=" \o DefaultMode, directory>>,
                           rs |-> TRUE, rws |-> FALSE], 1) }

\* Helper.mkdir(directory) (lines 358-386): the ways it can end, with the
\* sudo commands started; plain is "" when os.makedirs was not called.
Helper_mkdir_create_over_dir_mutant(directory, at, plain) ==
    IF at = "file"
    THEN {[r |-> Exc("RuntimeError"), sudo |-> NoResult, started |-> <<>>,
           plain |-> "", made |-> FALSE]}
    ELSE Helper_mkdir_create(directory, plain)

Helper_mkdir_create_over_file_mutant(directory, at, plain) ==
    IF at = "dir"
    THEN {[r |-> Returned("bool", <<>>), sudo |-> NoResult, started |-> <<>>,
           plain |-> "", made |-> FALSE]}
    ELSE Helper_mkdir_create(directory, plain)

Helper_mkdir(directory, at, plain) ==
    IF at = "dir"
    THEN {[r |-> Returned("bool", <<>>), sudo |-> NoResult, started |-> <<>>,
           plain |-> "", made |-> FALSE]}
    ELSE IF at = "file"
    THEN {[r |-> Exc("RuntimeError"), sudo |-> NoResult, started |-> <<>>,
           plain |-> "", made |-> FALSE]}
    ELSE Helper_mkdir_create(directory, plain)

\* Helper.cp(src, dest) (lines 388-406).
Helper_cp(src, dest, plain) ==
    IF plain = "ok"
    THEN {[r |-> Returned("bool", <<>>), sudo |-> NoResult, started |-> <<>>]}
    ELSE { [r |-> after_sudo(PlainError(plain, dest), run.r),
            sudo |-> run.r, started |-> run.started]
           : run \in Runs([fn |-> "check_call",
                           args |-> <<"sudo", "cp", src, dest>>,
                           rs |-> TRUE, rws |-> FALSE], 1) }

NoFs == [op |-> "", done |-> FALSE]

FsIdle == fs = NoFs

\* Before any call of mkdir or cp: any filesystem.
InitFs ==
    \E d \in Disks :
       fs = [op |-> "", done |-> FALSE, target |-> "", at |-> "", plain |-> "",
             sudo |-> NoResult, started |-> <<>>, out |-> NoResult,
             disk |-> d, nth |-> 0]

\* A caller runs Helper.mkdir(directory): os.path.isdir and os.path.exists
\* answer from the filesystem, and a directory that was created is there
\* afterwards with the permissions asked for.  nth counts the calls made in
\* a row on this path.
CallMkdir ==
    /\ \E directory \in Dirs, plain \in PlainOutcomes :
          LET at == fs.disk[directory].kind
              again == fs.op = "mkdir" /\ fs.target = directory
          IN
          /\ again => fs.nth < MaxRepeats
          /\ \E x \in Helper_mkdir(directory, at, plain) :
                fs' = [op |-> "mkdir", done |-> TRUE, target |-> directory,
                       at |-> at, plain |-> x.plain,
                       sudo |-> x.sudo, started |-> x.started, out |-> x.r,
                       disk |-> IF x.made
                                THEN [fs.disk EXCEPT ![directory] =
                                         [kind |-> "dir", mode |-> DefaultMode]]
                                ELSE fs.disk,
                       nth |-> IF again THEN fs.nth + 1 ELSE 1]
    /\ UNCHANGED <<invokeVars, helperVars, tgzVars, val, reg>>

\* A caller runs Helper.cp(src, dest).
CallCp ==
    /\ \E c \in Copies, plain \in PlainOutcomes :
          \E x \in Helper_cp(c[1], c[2], plain) :
             fs' = [op |-> "cp", done |-> TRUE, target |-> c[2], at |-> "",
                    plain |-> plain,
                    sudo |-> x.sudo, started |-> x.started, out |-> x.r,
                    disk |-> fs.disk, nth |-> 0]
    /\ UNCHANGED <<invokeVars, helperVars, tgzVars, val, reg>>

NextFs == CallMkdir \/ CallCp

(***************************************************************************)
(* Specifications                                                          *)
(***************************************************************************)

NoVal == [op |-> "", done |-> FALSE]

\* The Helper entity and its environment.
Init == InitInvoke /\ InitHelper /\ TgzIdle /\ val = NoVal /\ RegIdle /\ FsIdle

Spec == Init /\ [][NextHelper]_vars

\* The process invocation layer, one subprocess start at a time.
InitInvokeOnly ==
    InitInvoke /\ HelperIdle /\ TgzIdle /\ val = NoVal /\ RegIdle /\ FsIdle

SpecInvoke == InitInvokeOnly /\ [][NextInvoke]_vars

\* The Helper entity with its version read, no user interface configured.
InitVersion == InitInvoke /\ InitHelper /\ TgzIdle /\ val = NoVal /\ RegIdle /\ FsIdle

SpecVersion == InitVersion /\ [][NextVersion]_vars

\* Every operation of the Helper entity that touches its memoised fields:
\* path, installed, install (which reads installable), version and call.
NextMemo == EnvHelper \/ GetPath \/ GetInstalled \/ Install \/ GetVersion \/ Call

SpecMemo == InitVersion /\ [][NextMemo]_vars

\* The scoped download, one step of the generator at a time.
InitTgzOnly ==
    InitInvoke /\ HelperIdle /\ TgzIdle /\ val = NoVal /\ RegIdle /\ FsIdle

SpecTgz == InitTgzOnly /\ [][NextTgz]_vars

\* The validation utilities, each applied to the inputs drawn by InitVal.
InitValOnly == InitInvoke /\ HelperIdle /\ TgzIdle /\ InitVal /\ RegIdle /\ FsIdle

SpecVal == InitValOnly /\ [][NextVal]_vars

\* mkdir and cp, one call at a time, on any filesystem.
InitFsOnly ==
    InitInvoke /\ HelperIdle /\ TgzIdle /\ val = NoVal /\ RegIdle /\ InitFs

SpecFs == InitFsOnly /\ [][NextFs]_vars

\* The registry, one lookup at a time.
InitRegOnly ==
    InitInvoke /\ HelperIdle /\ TgzIdle /\ val = NoVal /\ RegIdle /\ FsIdle

SpecReg == InitRegOnly /\ [][NextReg]_vars

\* The registry, looked up by several threads at once.
InitRegThreads ==
    InitInvoke /\ HelperIdle /\ TgzIdle /\ val = NoVal /\ InitThreads /\ FsIdle

SpecRegThreads == InitRegThreads /\ [][NextThreads]_vars

(***************************************************************************)
(* Claims about the invocation layer, checked under SpecInvoke.            *)
(***************************************************************************)

\* The top-level invocation has given its caller a value or an exception.
Finished == frames = <<>> /\ res.kind # "none"

\* What the innermost finished frame produced, on its way to the caller.
Travelling == IF frames = <<>> THEN res ELSE pending

\* C2: a top-level check_call or check_output starts the program at most
\* twice, whatever the flags and whatever the subprocess does; a second start
\* runs the first argument vector with "sudo" prepended, in a frame with the
\* same require_success and retry_with_sudo cleared; the stack never holds
\* more than the caller's frame and one retry; and an unfinished invocation
\* can always take its next step, so with at most two starts it terminates.
C2_AtMostOneRetry ==
    /\ Len(started) <= 2
    /\ Len(frames) <= 2
    /\ res.type # "RecursionError"
    /\ Len(started) = 2 => started[2] = <<"sudo">> \o started[1]
    /\ Len(started) >= 1 => started[1] = req.args
    /\ Len(frames) = 2 =>
          /\ frames[1].pc = "retrying"
          /\ frames[2].call = [fn |-> req.fn, args |-> <<"sudo">> \o req.args,
                               rs |-> req.rs, rws |-> FALSE]
    /\ frames # <<>> => ENABLED (Attempt \/ Unwind)

\* An always-failing command, retried once with sudo and then given up.
C2_Witness ==
    /\ Finished
    /\ req.rs /\ req.rws
    /\ Len(started) = 2
    /\ seen[1].k = "exit" /\ seen[1].code # 0
    /\ seen[2].k = "exit" /\ seen[2].code # 0
    /\ res.type = "HelperError"

\* C3 (as claimed): when the program exits with status c # 0, an invocation
\* with require_success and without retry_with_sudo raises HelperError with
\* code c; one without require_success does not raise and, capturing, returns
\* the captured output.
C3_ExitCodeContract ==
    (Finished /\ seen[1].k = "exit" /\ seen[1].code # 0) =>
        /\ (req.rs /\ ~req.rws) =>
              res.kind = "raise" /\ res.type = "HelperError"
              /\ res.code = seen[1].code
        /\ ~req.rs =>
              /\ res.kind = "return"
              /\ req.fn = "check_output" =>
                    res.type = "str" /\ res.out = decode_ascii_ignore(seen[1].out)

\* C4: a start that fails with ENOENT is the last start of the invocation (no
\* sudo retry follows it) and its frame raises HelperNotFoundError carrying
\* ENOENT, the program's name and the check-your-PATH message, which reaches
\* the caller unchanged, for every require_success and retry_with_sudo.
C4_MissingExecutable ==
    \A i \in 1..Len(seen) :
        seen[i].errno = "ENOENT" =>
            /\ i = Len(seen)
            /\ Travelling.kind = "raise"
            /\ Travelling.type = "HelperNotFoundError"
            /\ Travelling.errno = "ENOENT"
            /\ Travelling.cmd = started[i][1]
            /\ Travelling.msg = PathHint

\* sudo itself is missing when check_call retries after a permission error.
C4_Witness ==
    /\ Finished
    /\ Len(seen) = 2
    /\ seen[1].errno = "EPERM"
    /\ seen[2].errno = "ENOENT"
    /\ res.type = "HelperNotFoundError" /\ res.cmd = "sudo"

(***************************************************************************)
(* Claims about the Helper entity, checked under Spec.                     *)
(***************************************************************************)

\* The helper is not on the search PATH and no path has been cached.
Absent == env[NAME] = "None" /\ h.path = "None"

\* C1: for a helper that is not on the search PATH, installed is false, and
\* call with no user interface configured raises HelperNotFoundError without
\* any install_package call and without starting a subprocess, whether or
\* not the helper is installable.
C1_NoUIRefuses ==
    [][ /\ (Absent /\ obs'.op = "installed") => obs'.ret = "False"
        /\ (Absent /\ ui = "None" /\ obs'.op = "call") =>
              /\ obs'.r.kind = "raise"
              /\ obs'.r.type = "HelperNotFoundError"
              /\ obs'.installs = <<>>
              /\ obs'.started = <<>>
      ]_vars

\* C10: while _path is empty every access of path searches the PATH once and
\* returns (and caches) what the search finds; once _path holds a location no
\* operation changes it, and an access of path returns it without searching,
\* wherever the executable is by then.
C10_PathLifecycle ==
    [][ /\ h.path # "None" => h'.path = h.path
        /\ (obs'.op = "path" /\ h.path = "None") =>
              obs'.n = 1 /\ obs'.ret = env[NAME] /\ h'.path = env[NAME]
        /\ (obs'.op = "path" /\ h.path # "None") =>
              obs'.n = 0 /\ obs'.ret = h.path
      ]_vars

\* path returns the cached location after the executable has left the PATH.
C10_Witness ==
    /\ obs.op = "path"
    /\ obs.n = 0
    /\ obs.ret # "None"
    /\ env[NAME] = "None"

(***************************************************************************)
(* Claims about the scoped download, checked under SpecTgz.                *)
(***************************************************************************)

\* C5: once control has left download_and_expand_tgz, however it left (the
\* block ended normally, the block raised, or the download or the extraction
\* failed before the block was entered), the temporary directory it made and
\* everything in it are gone; while it runs, only its own directory exists.
C5_TempDirRemoved ==
    /\ tgz.pc = "left" => (tgz.d \notin tmpdirs /\ tmpdirs = {} /\ files = {})
    /\ tgz.pc \notin {"idle", "left"} => tmpdirs = {tgz.d}

\* The block raised after the archive was extracted, and the directory is gone.
C5_Witness ==
    /\ tgz.pc = "left"
    /\ tgz.result = "BlockError"
    /\ tgz.d \notin tmpdirs

(***************************************************************************)
(* Claims about the validation utilities, checked under SpecVal.           *)
(***************************************************************************)

\* The positions of li that are not None.
PresentAt(li) == { i \in 1..Len(li) : li[i] # PyNone }

\* C6: check_for_conflict(label, li) returns None when every entry is None,
\* the entry when exactly one is not None (wherever it is), the common value
\* when all entries that are not None are equal (as == compares them), and raises
\* ValueMismatchError naming the label and rendering two unequal entries of
\* the list when any two entries that are not None are unequal.
C6_CheckForConflict ==
    (val.op = "check_for_conflict" /\ val.done) =>
        LET li == val.in.li
            present == PresentAt(li)
            out == val.out
        IN
        /\ present = {} => (out.type = "return" /\ out.ret = PyNone)
        /\ Cardinality(present) = 1 =>
              (out.type = "return" /\ \A i \in present : out.ret = li[i])
        /\ (present # {} /\ \A i, j \in present : py_eq(li[i], li[j])) =>
              (out.type = "return" /\ \A i \in present : py_eq(out.ret, li[i]))
        /\ (\E i, j \in present : ~py_eq(li[i], li[j])) =>
              /\ out.type = "ValueMismatchError"
              /\ out.label = val.in.label
              /\ \E i, j \in present :
                    /\ i < j
                    /\ ~py_eq(li[i], li[j])
                    /\ out.first = to_string(li[i])
                    /\ out.second = to_string(li[j])

\* Two unequal entries with None between them are reported.
C6_Witness ==
    /\ val.op = "check_for_conflict" /\ val.done
    /\ val.in.li = <<PyInt(1), PyNone, PyInt(2)>>
    /\ val.out.type = "ValueMismatchError"
    /\ val.out.first = <<"1">> /\ val.out.second = <<"2">>

\* The pairs of positions check_for_conflict compares and finds unequal.
UnequalPairs(li) ==
    { p \in PresentAt(li) \X PresentAt(li) :
         p[1] < p[2] /\ ~py_eq(li[p[1]], li[p[2]]) }

\* p comes before q in the order of the two loops.
ScannedBefore(p, q) == p[1] < q[1] \/ (p[1] = q[1] /\ p[2] <= q[2])

\* C26: check_for_conflict compares each entry that is not None with every
\* later entry that is not None, in list order; when some pair is unequal it
\* raises ValueMismatchError rendering the first such pair in that order;
\* when none is, it returns the last entry that is not None (None when
\* there is no such entry).
C26_ScanOrder ==
    (val.op = "check_for_conflict" /\ val.done) =>
        LET li == val.in.li
            present == PresentAt(li)
            pairs == UnequalPairs(li)
            out == val.out
        IN
        /\ pairs # {} =>
              LET p == CHOOSE q \in pairs : \A r \in pairs : ScannedBefore(q, r) IN
              /\ out.type = "ValueMismatchError"
              /\ out.label = val.in.label
              /\ out.first = to_string(li[p[1]])
              /\ out.second = to_string(li[p[2]])
        /\ pairs = {} =>
              /\ out.type = "return"
              /\ present = {} => out.ret = PyNone
              /\ present # {} =>
                    out.ret = li[CHOOSE i \in present : \A j \in present : j <= i]

\* Of two equal entries that can be told apart, 1 and 1.0, the last came
\* back.
C26_Witness ==
    /\ val.op = "check_for_conflict" /\ val.done
    /\ val.in.li = <<PyInt(1), PyNone, PyFloat(1)>>
    /\ val.out.type = "return" /\ val.out.ret = PyFloat(1)

AllHex(g) == \A k \in 1..Len(g) : IsHex(g[k])

ValidMac(groups, seps) ==
    \/ /\ Len(groups) = 6
       /\ \A k \in 1..6 : Len(groups[k]) = 2 /\ AllHex(groups[k])
       /\ \/ \A k \in 1..5 : seps[k] = ":"
          \/ \A k \in 1..5 : seps[k] = "-"
    \/ /\ Len(groups) = 3
       /\ \A k \in 1..3 : Len(groups[k]) = 4 /\ AllHex(groups[k])
       /\ \A k \in 1..2 : seps[k] = "."

\* C8: mac_address returns the string without its surrounding whitespace,
\* otherwise unchanged, when that is a MAC address in one of the three
\* notations, in either letter case, and raises InvalidInputError (quoting
\* the stripped string) for every other string.
C8_MacAddress ==
    (val.op = "mac_address" /\ val.done) =>
        LET core == Join(val.in.groups, val.in.seps) IN
        IF ValidMac(val.in.groups, val.in.seps)
        THEN val.out.type = "str" /\ val.out.ret = core
        ELSE val.out.type = "InvalidInputError" /\ val.out.quoted = core

\* A dot-grouped address of mixed case with whitespace around it is accepted.
C8_Witness ==
    /\ val.op = "mac_address" /\ val.done
    /\ val.in.str = <<" ", "c", "D", "1", "2", ".", "0", "a", "F", "9", ".",
                     "0", "a", "F", "9", "\t", "\n">>
    /\ val.out.type = "str"
    /\ val.out.ret = <<"c", "D", "1", "2", ".", "0", "a", "F", "9", ".",
                      "0", "a", "F", "9">>

Occurrences(l, x) == Cardinality({ k \in 1..Len(l) : l[k] = x })

Item(n) == <<"i", "t", "e", "m">> \o NatToStr(n)

\* C9: natural_sort returns a permutation of its input in which no element's
\* key (digit runs as numbers, text as text, compared element by element) is
\* less than the key of an element before it; so, for a common prefix p and
\* numbers m < n, p+str(m) comes before p+str(n); and
\* ["item10", "item2", "item1"] gives ["item1", "item2", "item10"].
C9_NaturalSort ==
    (val.op = "natural_sort" /\ val.done) =>
        LET l == val.in.l
            out == val.out
        IN
        /\ Len(out) = Len(l)
        /\ \A x \in SortItems : Occurrences(out, x) = Occurrences(l, x)
        /\ \A a, b \in 1..Len(out) :
              a < b => ~key_less(alphanum_key(out[b]), alphanum_key(out[a]))
        /\ \A p \in SortPrefixes : \A m, n \in SortNums :
              m < n =>
                 \A a, b \in 1..Len(out) :
                    (out[a] = p \o NatToStr(m) /\ out[b] = p \o NatToStr(n)) => a < b
        /\ l = <<Item(10), Item(2), Item(1)>> => out = <<Item(1), Item(2), Item(10)>>

\* The example of the specification.
C9_Witness ==
    /\ val.op = "natural_sort" /\ val.done
    /\ val.in.l = <<Item(10), Item(2), Item(1)>>
    /\ val.out = <<Item(1), Item(2), Item(10)>>

(***************************************************************************)
(* Further claims about the Helper entity, checked under Spec.             *)
(***************************************************************************)

\* C11: installed is remembered only once it is true: after an access of
\* installed has returned false (and no access of path has found the
\* program since), an access of installed made when the program is on the
\* search PATH returns true.
C11_InstalledRederived ==
    [][ (obs'.op = "installed" /\ h.installed = "False" /\ h.path = "None"
           /\ env[NAME] # "None") => obs'.ret = "True" ]_vars

\* The positions of the log at which the user interface was asked.
ConfirmsAt(l) == { k \in 1..Len(l) : l[k] \in {"confirm:True", "confirm:False"} }

\* C12: in a call with a user interface configured, confirm is asked only
\* when the helper's path does not resolve at the time of the call, at most
\* once, and before any install_package; when it answers false the call
\* raises HelperNotFoundError, installs no package and starts no subprocess;
\* when it answers true install() runs next, before the helper is started.
C12_ConsentProtocol ==
    [][ obs'.op = "call" =>
          LET l == obs'.log
              resolves == Helper_path(h, env, NAME).ret # "None"
          IN
          /\ Cardinality(ConfirmsAt(l)) <= 1
          /\ ConfirmsAt(l) # {} => (ui # "None" /\ ~resolves)
          /\ \A k \in ConfirmsAt(l) : \A j \in 1..Len(l) :
                l[j] \in {"install", "install_package", "start"} => k < j
          /\ (\E k \in 1..Len(l) : l[k] = "confirm:False") =>
                /\ obs'.r.kind = "raise"
                /\ obs'.r.type = "HelperNotFoundError"
                /\ obs'.installs = <<>>
                /\ obs'.started = <<>>
                /\ l = <<"confirm:False">>
          /\ \A k \in 1..Len(l) : l[k] = "confirm:True" =>
                /\ k < Len(l) /\ l[k + 1] = "install"
                /\ \A j \in 1..Len(l) : l[j] = "start" => j > k + 1
      ]_vars

\* The user interface agreed, install() installed a package and the helper
\* was started.
C12_Witness ==
    /\ obs.op = "call"
    /\ ui # "None"
    /\ obs.log = <<"confirm:True", "install", "install_package", "start">>

(***************************************************************************)
(* Claims about the registry, checked under SpecReg.                       *)
(***************************************************************************)

\* How many times the factory has been called with name k.
FactoryCalls(d, k) == Cardinality({ i \in 1..Len(d.made) : d.made[i] = k })

\* C13: over any sequence of lookups by name, the factory is called exactly
\* once for each name looked up, on the first lookup of that name; a lookup
\* of a name already present returns the instance made then; no entry is
\* removed or replaced; and the instance stored under key k has name k.
C13_Registry ==
    [][ LET d == reg.d
            e == reg'.d
            key == reg'.key
        IN
        /\ \A k \in DOMAIN d.items : k \in DOMAIN e.items /\ e.items[k] = d.items[k]
        /\ \A k \in RegNames :
              FactoryCalls(e, k) = IF k \in DOMAIN e.items THEN 1 ELSE 0
        /\ FactoryCalls(e, key) = FactoryCalls(d, key)
                                    + IF key \in DOMAIN d.items THEN 0 ELSE 1
        /\ \A k \in RegNames \ {key} : FactoryCalls(e, k) = FactoryCalls(d, k)
        /\ key \in DOMAIN e.items /\ reg'.ret = e.items[key]
        /\ key \in DOMAIN d.items => reg'.ret = d.items[key]
        /\ \A k \in DOMAIN e.items : e.items[k].name = k
        /\ \A j, k \in DOMAIN e.items : j # k => e.items[j].id # e.items[k].id
      ]_vars

\* A name has been looked up again after two other names were first looked
\* up, and the lookup gave the instance made at its first lookup.
C13_Witness ==
    /\ reg.lookups >= 4
    /\ Len(reg.d.made) = 3
    /\ reg.key = reg.d.made[1]
    /\ reg.ret = Helper_factory(reg.key, 1)

\* C25 (as claimed): when several threads look names up at the same time,
\* the factory is called at most once for each name, and the threads whose
\* lookup of one name has returned hold the same instance, the one stored.
C25_OnceUnderConcurrency ==
    /\ \A k \in RegNames : FactoryCalls(reg.d, k) <= 1
    /\ \A t, u \in Threads :
          (reg.th[t].pc = "done" /\ reg.th[u].pc = "done"
             /\ reg.th[t].key = reg.th[u].key) =>
             /\ reg.th[t].ret = reg.th[u].ret
             /\ reg.th[t].ret = reg.d.items[reg.th[t].key]

(***************************************************************************)
(* Claims about install() and version, checked under SpecVersion.          *)
(***************************************************************************)

\* C14: install() on a helper whose installed is true returns normally,
\* calls install_package on no package manager, does not consult
\* installable (no package manager object is touched), and leaves what
\* path, installed and version report as it was.
C14_InstallNoOp ==
    [][ (obs'.op = "install" /\ Helper_installed(h, env, NAME).ret) =>
          /\ obs'.r.kind = "return"
          /\ obs'.installs = <<>>
          /\ obs'.log = <<"install">>
          /\ pms' = pms
          /\ env' = env
          /\ Helper_path(h', env', NAME).ret = Helper_path(h, env, NAME).ret
          /\ Helper_installed(h', env', NAME).ret
          /\ h'.version = h.version
          /\ h'.vargs = h.vargs
      ]_vars

\* install() ran on a helper that is installed, has its version parsed and
\* could have been installed again by a package manager on the PATH.
C14_Witness ==
    /\ obs.op = "install"
    /\ obs.r.kind = "return"
    /\ obs.installs = <<>>
    /\ h.installed = "True"
    /\ h.version = <<1, 2, 0>>
    /\ providers # <<>>
    /\ env["apt-get"] # "None"

(***************************************************************************)
(* Claims about install(), checked under Spec.                             *)
(***************************************************************************)

\* C15: install() on a helper whose installed is false and whose installable
\* is false raises NotImplementedError, calls install_package on no package
\* manager, and the helper's installed is still false afterwards.
C15_NotInstallable ==
    [][ (/\ obs'.op = "install"
         /\ ~Helper_installed(h, env, NAME).ret
         /\ ~Helper_installable(providers, pms, env).ret) =>
          /\ obs'.r.kind = "raise"
          /\ obs'.r.type = "NotImplementedError"
          /\ obs'.installs = <<>>
          /\ env' = env
          /\ ~Helper_installed(h', env', NAME).ret
      ]_vars

\* install() refused although package managers are configured: none of them
\* is installed.
C15_Witness ==
    /\ obs.op = "install"
    /\ obs.r.type = "NotImplementedError"
    /\ Len(providers) = 2
    /\ obs.installs = <<>>
    /\ h.installed = "False"

\* C16: whenever install() returns normally the helper's path resolves and
\* installed is true; when the installation completes (no package manager
\* raised) and the helper is still not on the PATH, install() raises
\* AssertionError, neither HelperError nor HelperNotFoundError nor an input
\* error, and nothing is tried again: install() was entered once and no
\* package was installed twice.
C16_PostInstall ==
    [][ obs'.op = "install" =>
          /\ obs'.r.kind = "return" =>
                /\ h'.path # "None"
                /\ Helper_path(h', env', NAME).ret # "None"
                /\ Helper_installed(h', env', NAME).ret
          /\ (/\ ~Helper_installed(h, env, NAME).ret
              /\ Helper_installable(providers, pms, env).ret
              /\ obs'.r.type \notin {"HelperError", "NotImplementedError"}
              /\ env'[NAME] = "None") =>
                /\ obs'.r.kind = "raise"
                /\ obs'.r.type = "AssertionError"
          /\ Cardinality({ k \in 1..Len(obs'.log) : obs'.log[k] = "install" }) = 1
          /\ \A a, b \in 1..Len(obs'.installs) :
                a # b => obs'.installs[a] # obs'.installs[b]
      ]_vars

\* Every package was installed, none put the helper on the PATH, and
\* install() failed its assertion.
C16_Witness ==
    /\ obs.op = "install"
    /\ obs.r.type = "AssertionError"
    /\ Len(obs.installs) = 3
    /\ h.path = "None"

(***************************************************************************)
(* The default installation strategy, checked under Spec.                  *)
(***************************************************************************)

\* The install_package calls one pair of _provider_packages asks for: none
\* when its package manager is not installed, else one for the package when
\* a single string is configured, and one for each package of a list.
PairInstalls(pair, pm, e) ==
    IF ~Helper_installed(pm[pair.pm], e, pair.pm).ret THEN <<>>
    ELSE IF pair.kind = "str" THEN << <<pair.pm, pair.packages>> >>
    ELSE [k \in 1..Len(pair.packages) |-> <<pair.pm, pair.packages[k]>>]

\* Those of the first i pairs, in order.
RECURSIVE ExpectedInstalls(_, _, _, _)
ExpectedInstalls(provs, i, pm, e) ==
    IF i = 0 THEN <<>>
    ELSE ExpectedInstalls(provs, i - 1, pm, e) \o PairInstalls(provs[i], pm, e)

IsPrefix(s, t) == Len(s) <= Len(t) /\ s = SubSeq(t, 1, Len(s))

\* C27: an install() that reaches _install (the helper is not installed and
\* is installable) and in which no install_package call raises makes, in the
\* order of _provider_packages, one install_package call for each package
\* of each pair whose package manager is installed, and none for a pair
\* whose package manager is not; it goes on to the later pairs after a call
\* has put the helper on the PATH.  When a call raises, the calls made are
\* those up to it; an install() that does not reach _install makes none.
C27_DefaultInstall ==
    [][ obs'.op = "install" =>
          LET all == ExpectedInstalls(providers, Len(providers), pms, env)
              reached == /\ ~Helper_installed(h, env, NAME).ret
                         /\ Helper_installable(providers, pms, env).ret
          IN
          /\ IsPrefix(obs'.installs, all)
          /\ ~reached => obs'.installs = <<>>
          /\ (reached /\ obs'.r.type \notin {"HelperError", "NotImplementedError"}) =>
                obs'.installs = all
          /\ (reached /\ obs'.r.type \in {"HelperError", "NotImplementedError"}) =>
                obs'.installs # <<>>
      ]_vars

\* Both package managers were installed: the package of the first and the
\* two packages of the second were installed, and install() returned.
C27_Witness ==
    /\ obs.op = "install"
    /\ obs.r.kind = "return"
    /\ obs.installs = << <<"apt-get", "helper-bin">>, <<"yum", "helper">>,
                         <<"yum", "helper-libs">> >>

(***************************************************************************)
(* Claims about version, checked under SpecVersion.                        *)
(***************************************************************************)

\* C20: once an access of version has returned a parsed version, no
\* operation changes it and every later access returns it without starting
\* the helper program; and an access of version on a helper whose installed
\* is false starts no program.
C20_VersionOnce ==
    [][ /\ h.version # <<>> => h'.version = h.version
        /\ (obs'.op = "version" /\ h.version # <<>>) =>
              /\ obs'.r = Returned("StrictVersion", h.version)
              /\ obs'.started = <<>>
        /\ (obs'.op = "version" /\ ~Helper_installed(h, env, NAME).ret) =>
              /\ obs'.started = <<>>
              /\ obs'.r.kind = "return"
      ]_vars

\* version was read again after the program had left the PATH: the parsed
\* version came back and nothing was started.
C20_Witness ==
    /\ obs.op = "version"
    /\ obs.started = <<>>
    /\ obs.r = Returned("StrictVersion", <<1, 2, 0>>)
    /\ env[NAME] = "None"

\* C21 (as claimed): an access of version that ran the version command, the
\* command having exited with any status, zero or not, raises no HelperError
\* and no decoding error; when the default pattern finds no run of digits and
\* dots in the captured output (decoded ignoring invalid bytes), the access
\* raises RuntimeError and the helper's version stays unset.
C21_VersionProbe ==
    [][ (obs'.op = "version" /\ Len(obs'.seen) = 1 /\ obs'.seen[1].k = "exit") =>
           /\ obs'.r.type \notin {"HelperError", "HelperNotFoundError",
                                  "UnicodeDecodeError"} \cup ErrorClasses
           /\ re_search_version(decode_ascii_ignore(obs'.seen[1].out)) = <<>> =>
                 /\ obs'.r = Exc("RuntimeError")
                 /\ h'.version = <<>>
      ]_vars

\* C29 (as claimed, for the version probe): the helper's version-probe
\* arguments are those set at construction in every state, whatever accesses
\* of version have been made and however they ended, and every access of
\* version that starts the helper program starts it as [name] followed by
\* those arguments.
C29_VersionArgsKept ==
    [][ /\ h'.vargs = NewHelper.vargs
        /\ (obs'.op = "version" /\ obs'.started # <<>>) =>
              obs'.started[1] = <<NAME>> \o NewHelper.vargs
      ]_vars

(***************************************************************************)
(* Claims about mkdir and cp, checked under SpecFs.                        *)
(***************************************************************************)

\* C17: for mkdir and cp alike, when the plain operation fails and the one
\* retry under sudo fails too, whether the sudo command exits non-zero or
\* cannot be started, the error that reaches the caller is the error of the
\* plain operation.
C17_OriginalError ==
    (fs.done /\ fs.plain \in Errnos /\ fs.sudo.kind = "raise") =>
        fs.out = PlainError(fs.plain, fs.target)

\* C22: a call of mkdir on a path that is a directory returns True, does not
\* call os.makedirs, starts no subprocess and leaves the filesystem (what is
\* at each path, and the permissions of each directory) as it was; so the
\* same holds of the next call on that path, however many have been made.
C22_MkdirExisting ==
    [][ (fs'.op = "mkdir" /\ fs.disk[fs'.target].kind = "dir") =>
           /\ fs'.out = Returned("bool", <<>>)
           /\ fs'.plain = ""
           /\ fs'.started = <<>>
           /\ fs'.sudo = NoResult
           /\ fs'.disk = fs.disk
      ]_vars

\* mkdir was called for the third time in a row on a directory that was
\* there, with permissions other than the default, before the first call.
C22_Witness ==
    /\ fs.op = "mkdir" /\ fs.done /\ fs.nth = 3
    /\ fs.at = "dir"
    /\ fs.out = Returned("bool", <<>>)
    /\ fs.disk[fs.target] = [kind |-> "dir", mode |-> "700"]

\* C23: a call of mkdir on a path that exists and is not a directory raises
\* RuntimeError without calling os.makedirs and without starting a sudo
\* command, and leaves the filesystem as it was.
C23_MkdirNotDirectory ==
    [][ (fs'.op = "mkdir" /\ fs.disk[fs'.target].kind = "file") =>
           /\ fs'.out = Exc("RuntimeError")
           /\ fs'.plain = ""
           /\ fs'.started = <<>>
           /\ fs'.sudo = NoResult
           /\ fs'.disk = fs.disk
      ]_vars

\* mkdir was called on a path holding a file, and raised.
C23_Witness ==
    /\ fs.op = "mkdir" /\ fs.done
    /\ fs.at = "file"
    /\ fs.out = Exc("RuntimeError")
    /\ fs.disk[fs.target].kind = "file"

(***************************************************************************)
(* Further claims about the invocation layer, checked under SpecInvoke.    *)
(***************************************************************************)

\* What a result decides, without the captured text: returned or raised,
\* and for an exception its type, exit status and errno.
Decision(r) ==
    IF r.kind = "raise" THEN <<"raise", r.type, r.code, r.errno>>
    ELSE <<r.kind, "", 0, "0">>

\* C18: check_output decides as check_call does: whatever the subprocess
\* did and whatever require_success and retry_with_sudo are, a finished
\* check_output has retried with sudo exactly when check_call would have,
\* and has ended (returned, HelperNotFoundError, HelperError, or the error
\* passed on) as check_call would have; so with retry_with_sudo it has
\* retried on EPERM and EACCES.
C18_SameContract ==
    (Finished /\ req.fn = "check_output") =>
        LET d1 == check_call_step(req.args, req.rs, req.rws, seen[1]) IN
        /\ (d1.act = "retry") <=> (Len(started) = 2)
        /\ d1.act = "done" => Decision(res) = Decision(d1.r)
        /\ Len(started) = 2 =>
              /\ started[2] = <<"sudo">> \o req.args
              /\ LET d2 == check_call_step(started[2], req.rs, FALSE, seen[2]) IN
                 d2.act = "done" /\ Decision(res) = Decision(d2.r)
        /\ (req.rws /\ seen[1].k = "oserror" /\ seen[1].errno \in {"EPERM", "EACCES"}) =>
              Len(started) = 2

(***************************************************************************)
(* The classes of the validation errors, checked under SpecVal.            *)
(***************************************************************************)

\* The utilities that raise a validation error.
RaisingOps ==
    {"match_or_die", "check_for_conflict", "mac_address", "device_address",
     "no_whitespace", "validate_int"}

\* The class of the error a finished call raised, "" when it returned.
RaisedClass ==
    IF val.done /\ val.op \in RaisingOps /\ val.out.type \in ErrorClasses
    THEN val.out.type
    ELSE ""

\* C19 as stated: every validation failure raised by match_or_die,
\* check_for_conflict, mac_address, device_address, no_whitespace and
\* validate_int is caught by a handler of InvalidInputError.
C19_AllInvalidInput ==
    RaisedClass # "" => issubclass(RaisedClass, "InvalidInputError")

\* C19: every validation failure raised by the six utilities is a
\* ValueError.  mac_address, device_address and no_whitespace raise
\* InvalidInputError itself; validate_int raises ValueUnsupportedError,
\* ValueTooLowError or ValueTooHighError, which are subtypes of
\* InvalidInputError (the last two of ValueUnsupportedError as well);
\* match_or_die and check_for_conflict raise ValueMismatchError, which is a
\* ValueError but not an InvalidInputError, so a handler of
\* InvalidInputError does not catch it.
C19_Taxonomy ==
    RaisedClass # "" =>
        /\ issubclass(RaisedClass, "ValueError")
        /\ val.op \in {"mac_address", "device_address", "no_whitespace"} =>
              RaisedClass = "InvalidInputError"
        /\ val.op = "validate_int" =>
              /\ RaisedClass \in {"ValueUnsupportedError", "ValueTooLowError",
                                  "ValueTooHighError"}
              /\ issubclass(RaisedClass, "ValueUnsupportedError")
              /\ issubclass(RaisedClass, "InvalidInputError")
        /\ val.op \in {"match_or_die", "check_for_conflict"} =>
              /\ RaisedClass = "ValueMismatchError"
              /\ ~issubclass(RaisedClass, "InvalidInputError")

\* match_or_die has raised on two values that differ.
C19_Witness ==
    /\ val.op = "match_or_die" /\ val.done
    /\ ~py_eq(val.in.first, val.in.second)
    /\ RaisedClass = "ValueMismatchError"

\* C24 (as claimed): every exception a finished check_call or check_output
\* raises is HelperNotFoundError or HelperError.
C24_OnlyTypedFailures ==
    (Finished /\ res.kind = "raise") =>
        res.type \in {"HelperNotFoundError", "HelperError"}

\* C24: of the failures to start the program only the missing executable
\* is given a type.  When the last start of a finished invocation failed
\* with an OSError, the invocation raises: HelperNotFoundError for ENOENT,
\* and for every other errno the OSError itself, with that errno.  Every
\* exception check_call raises is HelperNotFoundError, HelperError (after a
\* non-zero exit) or such an OSError.
C24_FailureSurface ==
    Finished =>
        LET o == seen[Len(seen)] IN
        /\ o.k = "oserror" =>
              /\ res.kind = "raise"
              /\ o.errno = "ENOENT" => res.type = "HelperNotFoundError"
              /\ o.errno # "ENOENT" =>
                    res.type = "OSError" /\ res.errno = o.errno
        /\ (req.fn = "check_call" /\ res.kind = "raise") =>
              /\ res.type \in {"HelperNotFoundError", "HelperError", "OSError"}
              /\ res.type = "OSError" => o.k = "oserror" /\ o.errno # "ENOENT"
              /\ res.type = "HelperError" => o.k = "exit" /\ o.code # 0

\* check_call with retry_with_sudo cleared met a permission error, which
\* reached the caller as the OSError it was.
C24_Witness ==
    /\ Finished
    /\ req.fn = "check_call" /\ ~req.rws
    /\ Len(seen) = 1 /\ seen[1].k = "oserror" /\ seen[1].errno = "EACCES"
    /\ res.kind = "raise" /\ res.type = "OSError" /\ res.errno = "EACCES"

\* C28 (as claimed): whatever bytes the program printed and whatever its
\* exit status, a finished check_output has not failed with a decoding
\* error; and without require_success a non-zero exit makes it return the
\* output decoded as ASCII with the invalid bytes left out.
C28_PermissiveDecode ==
    (Finished /\ req.fn = "check_output") =>
        /\ res.type # "UnicodeDecodeError"
        /\ (~req.rs /\ seen[1].k = "exit" /\ seen[1].code # 0) =>
              res = Returned("str", decode_ascii_ignore(seen[1].out))

(***************************************************************************)
(* The memoised fields of a helper, checked under SpecMemo.                *)
(***************************************************************************)

\* C30: in every state reached by accesses of path, installed, installable
\* and version and by calls of call and install, the memoised installed flag
\* of a helper is true exactly when its cached path is non-empty: the flag is
\* never true without a cached path, and a cached path never comes with a
\* false or unset flag.  The package managers are helpers, and it holds of
\* them as well.
C30_FlagIffPath ==
    /\ (h.installed = "True") <=> (h.path # "None")
    /\ \A m \in DOMAIN pms : (pms[m].installed = "True") <=> (pms[m].path # "None")

\* An access of path has searched the PATH and found the program: the cached
\* path and the flag are set together.
C30_Witness ==
    /\ obs.op = "path"
    /\ obs.n = 1
    /\ obs.ret # "None"
    /\ h.path # "None"
    /\ h.installed = "True"

(***************************************************************************)
(* Starting the helper, checked under Spec.                                *)
(***************************************************************************)

\* C31: call hands the helper's program to the invocation layer only once
\* the helper's path is resolved: whenever a call, or an access of version
\* (which goes through call), has started a subprocess, the helper's cached
\* path is non-empty when the operation ends, and every subprocess start
\* comes after the last step of the installation.
C31_StartAfterPath ==
    [][ (obs'.op \in {"call", "version"} /\ obs'.started # <<>>) =>
           /\ h'.path # "None"
           /\ \A i, j \in 1..Len(obs'.log) :
                 (obs'.log[i] = "start" /\ obs'.log[j] # "start") => j < i
      ]_vars

\* A call found no path, installed the program, and then started it.
C31_Witness ==
    /\ obs.op = "call"
    /\ obs.installs # <<>>
    /\ obs.started # <<>>
    /\ obs.started[1][1] = NAME
    /\ h.path # "None"

(***************************************************************************)
(* The error of a failed retry, checked under SpecInvoke.                  *)
(***************************************************************************)

\* C32 (as claimed): when require_success and retry_with_sudo are both set
\* and the program and its sudo retry have both exited with a non-zero
\* status, the caller gets the retry's HelperError: it names 'sudo' as the
\* program and carries the retry's exit status (and, from check_output, the
\* retry's output), nothing of the first attempt.
C32_RetryErrorReported ==
    ( /\ Finished
      /\ req.rs /\ req.rws
      /\ Len(seen) = 2
      /\ seen[1].k = "exit" /\ seen[1].code # 0
      /\ seen[2].k = "exit" /\ seen[2].code # 0 ) =>
        res = Raised("HelperError", seen[2].code, "0", "sudo",
                     "Helper program exited with error",
                     IF req.fn = "check_output"
                     THEN decode_ascii_ignore(seen[2].out) ELSE <<>>)

=============================================================================
